---- MODULE Spec2Model ----
(***************************************************************************)
(* A model of the Game class of src/src/Game/index.ts: the unit and city   *)
(* registries and their cells, command validation against a per-turn       *)
(* accumulator, and the pruning of a batch of move actions.                *)
(*                                                                         *)
(* Ids are modelled by their counter numbers: unit id n stands for "u_n",  *)
(* city id n for "c_n". An optional id argument that is not supplied is 0  *)
(* (the source tests `if (unitid)` / `if (cityid)`).                       *)
(***************************************************************************)
EXTENDS Integers, Sequences, FiniteSets, TLC

\* configs.width / configs.height of the map the game is constructed with
Width == 3
Height == 2

\* ---- bounds of the model (not program constants)
UnitsMaxLive == 2      \* SpecUnits: live units at a time
UnitsMaxSpawns == 3    \* SpecUnits: spawnWorker/spawnCart calls
CityMaxTiles == 3      \* SpecCity: city tiles on the map at a time
CityMaxID == 2         \* SpecCity: cap of globalCityIDCount
MoveMaxUnits == 3      \* SpecMove: units spawned
MoveMaxTiles == 1      \* SpecMove: city tiles on the map at a time
MoveMaxCityID == 2     \* SpecMove: cap of globalCityIDCount
ValidateMaxTiles == 2  \* SpecValidate: city tiles of the game the commands are for
ValidateMaxUnits == 2  \* SpecValidate: units of the game the commands are for
ReleaseMaxAmount == 5  \* SpecRelease: wood on the wood cell at the start
ReleaseMaxUnits == 3   \* SpecRelease: units on the map

\* configs.parameters.RESOURCE_TO_FUEL_RATE
FuelRateWood == 1
FuelRateCoal == 2
FuelRateUranium == 3
CITY_WOOD_COST == 2
CollectionRateWood == 2
CollectionRateCoal == 2
CollectionRateUranium == 1
MIN_ROAD == 0
WorkerCargoCapacity == 3
CartCargoCapacity == 4

Teams == {"A", "B"}
Positions == {<<x, y>> : x \in 0..(Width - 1), y \in 0..(Height - 1)}
DIRECTIONS == {"n", "e", "s", "w", "c"}
WORKER == "worker"
CART == "cart"

\* ---- generic helpers on partial functions (JS Map objects)
Put(f, k, v) == [x \in (DOMAIN f) \cup {k} |-> IF x = k THEN v ELSE f[x]]
Remove(f, k) == [x \in (DOMAIN f) \ {k} |-> f[x]]
EmptyMap == [x \in {} |-> 0]

\* ---- GameMap / Position (collaborators of Game)
inMap(pos) == pos \in Positions

translate(pos, direction) ==
  CASE direction = "n" -> <<pos[1], pos[2] - 1>>
    [] direction = "e" -> <<pos[1] + 1, pos[2]>>
    [] direction = "s" -> <<pos[1], pos[2] + 1>>
    [] direction = "w" -> <<pos[1] - 1, pos[2]>>
    [] OTHER -> pos

\* the cells next to pos in the map's fixed order: north, east, south, west
getAdjacentCells(pos) ==
  SelectSeq(<<translate(pos, "n"), translate(pos, "e"),
              translate(pos, "s"), translate(pos, "w")>>,
            LAMBDA p : inMap(p))

isAdjacent(p, q) ==
  LET dx == IF p[1] >= q[1] THEN p[1] - q[1] ELSE q[1] - p[1]
      dy == IF p[2] >= q[2] THEN p[2] - q[2] ELSE q[2] - p[2]
  IN dx + dy = 1

VARIABLES
  citytile,           \* cell.citytile: position -> CityTile, for the cells that are city tiles
  cellUnits,          \* cell.units: position -> the units on the cell (id and team of each)
  resource,           \* cell.resource: position -> resource, for the cells that hold one
  road,               \* cell.road: position -> road level
  cities,             \* Game.cities: city id -> City (team, fuel, citycells)
  teamUnits,          \* Game.state.teamStates[team].units: id -> Unit
  globalCityIDCount,
  globalUnitIDCount,
  stats,              \* Game.stats.teamStats
  researched,         \* Game.state.teamStates[team].researched
  acc,                \* the turn's _AccumulatedActionStats
  turnActions,        \* the actions validateCommand returned this turn, counted
  last                \* the last call on units or commands, and what it returned

gameVars == <<citytile, cellUnits, resource, road, cities, teamUnits,
              globalCityIDCount, globalUnitIDCount, stats, researched>>
vars == <<citytile, cellUnits, resource, road, cities, teamUnits,
          globalCityIDCount, globalUnitIDCount, stats, researched,
          acc, turnActions, last>>

\* the game as one value, for the operators that model the methods
Game ==
  [citytile |-> citytile, cellUnits |-> cellUnits, resource |-> resource,
   road |-> road, cities |-> cities, teamUnits |-> teamUnits,
   globalCityIDCount |-> globalCityIDCount,
   globalUnitIDCount |-> globalUnitIDCount, stats |-> stats,
   researched |-> researched]

IsGame(g) ==
  /\ citytile = g.citytile
  /\ cellUnits = g.cellUnits
  /\ resource = g.resource
  /\ road = g.road
  /\ cities = g.cities
  /\ teamUnits = g.teamUnits
  /\ globalCityIDCount = g.globalCityIDCount
  /\ globalUnitIDCount = g.globalUnitIDCount
  /\ stats = g.stats
  /\ researched = g.researched

SetGame(g) ==
  /\ citytile' = g.citytile
  /\ cellUnits' = g.cellUnits
  /\ resource' = g.resource
  /\ road' = g.road
  /\ cities' = g.cities
  /\ teamUnits' = g.teamUnits
  /\ globalCityIDCount' = g.globalCityIDCount
  /\ globalUnitIDCount' = g.globalUnitIDCount
  /\ stats' = g.stats
  /\ researched' = g.researched

\* the fields of Game after construction
NewGame ==
  [citytile |-> EmptyMap,
   cellUnits |-> [p \in Positions |-> {}],
   resource |-> EmptyMap,
   road |-> [p \in Positions |-> MIN_ROAD],
   cities |-> EmptyMap,
   teamUnits |-> [t \in Teams |-> EmptyMap],
   globalCityIDCount |-> 0,
   globalUnitIDCount |-> 0,
   stats |-> [t \in Teams |->
               [fuelGenerated |-> 0,
                resourcesCollected |-> [wood |-> 0, coal |-> 0, uranium |-> 0],
                workersBuilt |-> 0, cartsBuilt |-> 0]],
   researched |-> [t \in Teams |-> [wood |-> TRUE, coal |-> FALSE, uranium |-> FALSE]]]

_genInitialAccumulatedActionStats ==
  [t \in Teams |-> [workersBuilt |-> 0, cartsBuilt |-> 0, actionsPlaced |-> {}]]

NoCall == [op |-> "none"]

\* a turn starts with a new accumulator and no action returned yet
TurnStart ==
  /\ acc = _genInitialAccumulatedActionStats
  /\ turnActions = EmptyMap

NewAccumulator ==
  /\ acc' = _genInitialAccumulatedActionStats
  /\ turnActions' = EmptyMap

\* ---- units

getUnit(g, team, unitid) == g.teamUnits[team][unitid]

hasUnit(g, team, unitid) == unitid \in DOMAIN g.teamUnits[team]

\* new Worker(...) / new Cart(...): at (x, y), nothing carried, no cooldown
NewUnit(type, team, pos) ==
  [type |-> type, team |-> team, pos |-> pos, cooldown |-> 0,
   cargo |-> [wood |-> 0, coal |-> 0, uranium |-> 0]]

\* cell.units.set(id, unit): the entry under id is replaced
unitsSet(units, id, team) ==
  {u \in units : u.id # id} \cup {[id |-> id, team |-> team]}

\* cell.units.delete(id)
unitsDelete(units, id) == {u \in units : u.id # id}

\* variant of spawnWorker / spawnCart: the counter is raised for a supplied id too
spawnUnitAlwaysCounts(g, type, team, pos, unitid) ==
  LET id == IF unitid # 0 THEN unitid ELSE g.globalUnitIDCount + 1
      built == IF type = WORKER THEN "workersBuilt" ELSE "cartsBuilt"
  IN [g EXCEPT
        !.globalUnitIDCount = @ + 1,
        !.cellUnits[pos] = unitsSet(@, id, team),
        !.teamUnits[team] = Put(@, id, NewUnit(type, team, pos)),
        !.stats[team][built] = @ + 1]

spawnUnit(g, type, team, pos, unitid) ==
  LET id == IF unitid # 0 THEN unitid ELSE g.globalUnitIDCount + 1
      built == IF type = WORKER THEN "workersBuilt" ELSE "cartsBuilt"
  IN [g EXCEPT
        !.globalUnitIDCount = IF unitid # 0 THEN @ ELSE @ + 1,
        !.cellUnits[pos] = unitsSet(@, id, team),
        !.teamUnits[team] = Put(@, id, NewUnit(type, team, pos)),
        !.stats[team][built] = @ + 1]

spawnWorker(g, team, pos, unitid) == spawnUnit(g, WORKER, team, pos, unitid)

spawnCart(g, team, pos, unitid) == spawnUnit(g, CART, team, pos, unitid)

\* moveUnit without `units.delete(unit.id)` on the old cell
moveUnitKeepsOldCell(g, team, unitid, direction) ==
  LET unit == getUnit(g, team, unitid)
      newpos == translate(unit.pos, direction)
      g2 == [g EXCEPT !.teamUnits[team][unitid].pos = newpos]
  IN [g2 EXCEPT !.cellUnits[newpos] = unitsSet(@, unitid, team)]

moveUnit(g, team, unitid, direction) ==
  LET unit == getUnit(g, team, unitid)
      newpos == translate(unit.pos, direction)
      g1 == [g EXCEPT !.cellUnits[unit.pos] = unitsDelete(@, unitid)]
      g2 == [g1 EXCEPT !.teamUnits[team][unitid].pos = newpos]
  IN [g2 EXCEPT !.cellUnits[newpos] = unitsSet(@, unitid, team)]

destroyUnit(g, team, unitid) ==
  LET unit == getUnit(g, team, unitid)
  IN [g EXCEPT !.cellUnits[unit.pos] = unitsDelete(@, unitid),
               !.teamUnits[team] = Remove(@, unitid)]

LiveIds(g) == UNION {DOMAIN g.teamUnits[t] : t \in Teams}

SpawnsSoFar(g) ==
  g.stats["A"].workersBuilt + g.stats["A"].cartsBuilt
    + g.stats["B"].workersBuilt + g.stats["B"].cartsBuilt

\* An id is supplied when a unit of a saved state is put back: it is an id the
\* counter has issued and that no live unit holds.
SuppliableUnitIds(g) == (1..g.globalUnitIDCount) \ LiveIds(g)

\* ---- cities

Range(seq) == {seq[i] : i \in 1..Len(seq)}

isCityTile(g, pos) == pos \in DOMAIN g.citytile

\* cell.setCityTile(team, cityid): a new CityTile on the cell
NewCityTile(team, cityid) ==
  [team |-> team, cityid |-> cityid, cooldown |-> 0, adjacentCityTiles |-> 0]

\* new City(team, configs, idcount): no fuel, no cells
NewCity(team) == [team |-> team, fuel |-> 0, citycells |-> <<>>]

adjSameTeamCityTiles(g, team, pos) ==
  SelectSeq(getAdjacentCells(pos),
            LAMBDA c : isCityTile(g, c) /\ g.citytile[c].team = team)

\* a Set's iteration order: each value once, where it was first added
RECURSIVE insertionOrder(_)
insertionOrder(seq) ==
  IF seq = <<>> THEN <<>>
  ELSE LET front == insertionOrder(SubSeq(seq, 1, Len(seq) - 1))
           x == seq[Len(seq)]
       IN IF x \in Range(front) THEN front ELSE Append(front, x)

cityIdsFound(g, team, pos) ==
  LET adj == adjSameTeamCityTiles(g, team, pos)
  IN insertionOrder([i \in 1..Len(adj) |-> g.citytile[adj[i]].cityid])

\* the surviving city's id: that of the first same-team neighbour
survivingId(g, adj) == g.citytile[adj[1]].cityid

\* absorbCity without `city.fuel += oldcity.fuel`
absorbCityFuelDropped(g, cityid, id) ==
  LET oldcity == g.cities[id]
      g1 == [g EXCEPT
               !.citytile = [p \in DOMAIN @ |->
                               IF p \in Range(oldcity.citycells)
                               THEN [@[p] EXCEPT !.cityid = cityid] ELSE @[p]],
               !.cities[cityid].citycells = @ \o oldcity.citycells]
  IN [g1 EXCEPT !.cities = Remove(@, id)]

\* oldcity's cells, fuel and registry entry go to the city cityid
absorbCity(g, cityid, id) ==
  LET oldcity == g.cities[id]
      g1 == [g EXCEPT
               !.citytile = [p \in DOMAIN @ |->
                               IF p \in Range(oldcity.citycells)
                               THEN [@[p] EXCEPT !.cityid = cityid] ELSE @[p]],
               !.cities[cityid].citycells = @ \o oldcity.citycells,
               !.cities[cityid].fuel = @ + oldcity.fuel]
  IN [g1 EXCEPT !.cities = Remove(@, id)]

\* cityIdsFound.forEach: a found id that is no key of the registry ends the
\* call with a TypeError, and what was done before it stays done
RECURSIVE mergeCities(_, _, _)
mergeCities(g, cityid, ids) ==
  IF ids = <<>> THEN [game |-> g, threw |-> FALSE]
  ELSE IF Head(ids) = cityid THEN mergeCities(g, cityid, Tail(ids))
  ELSE IF Head(ids) \notin DOMAIN g.cities THEN [game |-> g, threw |-> TRUE]
  ELSE mergeCities(absorbCity(g, cityid, Head(ids)), cityid, Tail(ids))

spawnCityTile(g, team, pos, cityid) ==
  LET adj == adjSameTeamCityTiles(g, team, pos)
  IN IF Len(adj) = 0
     THEN LET id == IF cityid # 0 THEN cityid ELSE g.globalCityIDCount + 1
          IN [game |->
                [g EXCEPT
                   !.globalCityIDCount = IF cityid # 0 THEN @ ELSE @ + 1,
                   !.citytile = Put(@, pos, NewCityTile(team, id)),
                   !.cities = Put(@, id, [NewCity(team) EXCEPT !.citycells = <<pos>>])],
              threw |-> FALSE]
     ELSE LET id == survivingId(g, adj)
              g1 == [g EXCEPT !.citytile =
                       Put(@, pos, [NewCityTile(team, id) EXCEPT
                                      !.adjacentCityTiles = Len(adj)])]
              g2 == [g1 EXCEPT !.citytile =
                       [p \in DOMAIN @ |->
                          IF p \in Range(adj)
                          THEN [@[p] EXCEPT !.adjacentCityTiles = @ + 1] ELSE @[p]]]
          IN IF id \notin DOMAIN g.cities
             THEN [game |-> g2, threw |-> TRUE]
             ELSE mergeCities([g2 EXCEPT !.cities[id].citycells = Append(@, pos)],
                              id, cityIdsFound(g, team, pos))

\* variant of destroyCity: the road of the cells is left as it is
destroyCityRoadKept(g, cityID) ==
  LET city == g.cities[cityID]
  IN [g EXCEPT
        !.cities = Remove(@, cityID),
        !.citytile = [p \in (DOMAIN @) \ Range(city.citycells) |-> @[p]]]

destroyCity(g, cityID) ==
  LET city == g.cities[cityID]
  IN [g EXCEPT
        !.cities = Remove(@, cityID),
        !.citytile = [p \in (DOMAIN @) \ Range(city.citycells) |-> @[p]],
        !.road = [p \in DOMAIN @ |->
                    IF p \in Range(city.citycells) THEN MIN_ROAD ELSE @[p]]]

fuelOf(cargo) ==
  cargo.wood * FuelRateWood + cargo.coal * FuelRateCoal
    + cargo.uranium * FuelRateUranium

\* whether the unit stands on a city tile of its own team
onOwnCityTile(g, unit) ==
  isCityTile(g, unit.pos) /\ g.citytile[unit.pos].team = unit.team

handleResourceDeposit(g, team, unitid) ==
  LET unit == getUnit(g, team, unitid)
  IN IF onOwnCityTile(g, unit)
     THEN [g EXCEPT
             !.cities[g.citytile[unit.pos].cityid].fuel = @ + fuelOf(unit.cargo),
             !.stats[unit.team].fuelGenerated = @ + fuelOf(unit.cargo),
             !.teamUnits[team][unitid].cargo = [wood |-> 0, coal |-> 0, uranium |-> 0]]
     ELSE g

\* the cargo a worker carries after harvesting
withCargo(g, team, unitid, cargo) ==
  [g EXCEPT !.teamUnits[team][unitid].cargo = cargo]

\* "Can pass cityid to use an existing city id": the id of a city of the team
SuppliableCityIds(g, team) == {id \in DOMAIN g.cities : g.cities[id].team = team}

\* ---- actions on cities

\* called for a cell that is no city tile (validateCommand refuses bcity on one)
SpawnCityTile(team, pos, cityid) ==
  /\ ~isCityTile(Game, pos)
  /\ SetGame(spawnCityTile(Game, team, pos, cityid).game)
  /\ last' = NoCall
  /\ NewAccumulator

DestroyCity(cityID) ==
  /\ cityID \in DOMAIN cities
  /\ SetGame(destroyCity(Game, cityID))
  /\ NewAccumulator
  /\ last' = NoCall

\* a unit on a city tile whose city is not in the registry ends the call with
\* a TypeError before anything is changed
HandleResourceDeposit(team, unitid) ==
  /\ hasUnit(Game, team, unitid)
  /\ LET unit == getUnit(Game, team, unitid)
     IN onOwnCityTile(Game, unit) => citytile[unit.pos].cityid \in DOMAIN cities
  /\ SetGame(handleResourceDeposit(Game, team, unitid))
  /\ NewAccumulator
  /\ last' = NoCall

\* ---- the city registry and the map: spawnCityTile, destroyCity, deposits

\* the road of a cell after carts have passed
withRoad(g, pos, level) == [g EXCEPT !.road[pos] = level]

\* a game in progress with no city: two workers that carry what they harvested,
\* and two cells with a road
CityStart ==
  LET g0 == withRoad(withRoad(NewGame, <<0, 0>>, MIN_ROAD + 1), <<1, 1>>, MIN_ROAD + 1)
      g1 == spawnWorker(g0, "A", <<0, 0>>, 0)
      g2 == spawnWorker(g1, "A", <<2, 0>>, 0)
      g3 == withCargo(g2, "A", 1, [wood |-> 1, coal |-> 0, uranium |-> 0])
  IN withCargo(g3, "A", 2, [wood |-> 0, coal |-> 1, uranium |-> 0])

InitCity ==
  /\ IsGame(CityStart)
  /\ TurnStart
  /\ last = NoCall

NextCity ==
  \/ \E team \in Teams : \E pos \in Positions, cityid \in {0} \cup SuppliableCityIds(Game, team) :
        /\ Cardinality(DOMAIN citytile) < CityMaxTiles
        /\ (cityid = 0 /\ adjSameTeamCityTiles(Game, team, pos) = <<>>)
              => globalCityIDCount < CityMaxID
        /\ SpawnCityTile(team, pos, cityid)
  \/ \E cityID \in DOMAIN cities : DestroyCity(cityID)
  \/ \E team \in Teams, unitid \in LiveIds(Game) : HandleResourceDeposit(team, unitid)

SpecCity == InitCity /\ [][NextCity]_vars

\* ---- spawnCityTile and deposits only: how a set of tiles grows into cities

NextMerge ==
  \/ \E team \in Teams : \E pos \in Positions, cityid \in {0} \cup SuppliableCityIds(Game, team) :
        /\ Cardinality(DOMAIN citytile) < CityMaxTiles
        /\ (cityid = 0 /\ adjSameTeamCityTiles(Game, team, pos) = <<>>)
              => globalCityIDCount < CityMaxID
        /\ SpawnCityTile(team, pos, cityid)
  \/ \E team \in Teams, unitid \in LiveIds(Game) : HandleResourceDeposit(team, unitid)

SpecMerge == InitCity /\ [][NextMerge]_vars

\* ---- claims about cities

RECURSIVE fuelSum(_, _)
fuelSum(cs, ids) ==
  IF ids = {} THEN 0
  ELSE LET i == CHOOSE i \in ids : TRUE
       IN cs[i].fuel + fuelSum(cs, ids \ {i})

\* the city tiles linked to the tiles of S through same-team orthogonal neighbours
RECURSIVE clusterOf(_)
clusterOf(S) ==
  LET T == S \cup {q \in DOMAIN citytile :
                     \E p \in S : isAdjacent(p, q) /\ citytile[p].team = citytile[q].team}
  IN IF T = S THEN S ELSE clusterOf(T)

\* in SpecMerge a worker's cargo is zero exactly when it has deposited it, on
\* the tile it stands on: the fuel deposited so far on the tiles of K
RECURSIVE depositedOn(_, _)
depositedOn(K, ids) ==
  IF ids = {} THEN 0
  ELSE LET i == CHOOSE i \in ids : TRUE
           u == teamUnits["A"][i]
           mine == IF u.pos \in K /\ fuelOf(u.cargo) = 0
                   THEN fuelOf(CityStart.teamUnits["A"][i].cargo) ELSE 0
       IN mine + depositedOn(K, ids \ {i})

holdersOf(K) == {id \in DOMAIN cities : Range(cities[id].citycells) \cap K # {}}

\* C6: however a connected set of same-team tiles was placed, the registry holds
\* exactly one city for it, that city lists every tile of the set exactly once
\* and nothing else, and its fuel is all the fuel that was put into the cities
\* the set went through.
C6_OneCityPerConnectedSet ==
  \A p \in DOMAIN citytile :
    LET K == clusterOf({p})
    IN /\ Cardinality(holdersOf(K)) = 1
       /\ \A id \in holdersOf(K) :
            /\ Range(cities[id].citycells) = K
            /\ Len(cities[id].citycells) = Cardinality(K)
            /\ cities[id].fuel = depositedOn(K, DOMAIN teamUnits[citytile[p].team])

\* C8: the registry and the map agree. Every city tile names a city of the
\* registry and is listed exactly once by that city and by no other; every
\* listed cell is a city tile of the city's team carrying the city's id; no
\* registered city is empty.
C8_RegistryAndMapAgree ==
  /\ \A p \in DOMAIN citytile :
       /\ citytile[p].cityid \in DOMAIN cities
       /\ Cardinality({i \in 1..Len(cities[citytile[p].cityid].citycells) :
                         cities[citytile[p].cityid].citycells[i] = p}) = 1
       /\ \A id \in (DOMAIN cities) \ {citytile[p].cityid} :
            p \notin Range(cities[id].citycells)
  /\ \A id \in DOMAIN cities :
       /\ cities[id].citycells # <<>>
       /\ \A p \in Range(cities[id].citycells) :
            /\ p \in DOMAIN citytile
            /\ citytile[p].team = cities[id].team
            /\ citytile[p].cityid = id

\* the same-team city tiles next to pos before the step, in the map's order
neighboursBefore(pos, team) ==
  SelectSeq(getAdjacentCells(pos),
            LAMBDA c : c \in DOMAIN citytile /\ citytile[c].team = team)

C7_MergeStep(pos) ==
  LET team == citytile'[pos].team
      adj == neighboursBefore(pos, team)
      ids == {citytile[c].cityid : c \in Range(adj)}
      first == citytile[adj[1]].cityid
      tilesBefore == UNION {Range(cities[id].citycells) : id \in ids}
  IN (adj # <<>> /\ ids \subseteq DOMAIN cities) =>
       /\ citytile'[pos].cityid = first
       /\ DOMAIN cities' = ((DOMAIN cities) \ ids) \cup {first}
       /\ Range(cities'[first].citycells) = tilesBefore \cup {pos}
       /\ Len(cities'[first].citycells) = Cardinality(tilesBefore \cup {pos})
       /\ cities'[first].fuel = fuelSum(cities, ids)
       /\ cities'[first].team = team
       /\ \A q \in tilesBefore : citytile'[q].cityid = first
       /\ \A id \in (DOMAIN cities') \ {first} : cities'[id] = cities[id]

\* C7: a spawnCityTile step (the one step that makes a cell a city tile) on a
\* cell with same-team neighbours whose cities are registered leaves one city
\* for them: its id is the first neighbour's, its cells are the new tile and
\* the cells of all those cities, each once, its fuel is the sum of theirs,
\* the other ids are gone from the registry and their tiles carry the
\* surviving id; the cities that are not neighbours are untouched.
C7_MergeIntoFirstNeighbour ==
  [][\A pos \in (DOMAIN citytile') \ (DOMAIN citytile) : C7_MergeStep(pos)]_vars

\* both workers have deposited, each in its own city, and a third tile has
\* merged the two cities: one city of three cells holding both deposits
C7_Witness ==
  /\ globalCityIDCount = 2
  /\ \E id \in DOMAIN cities :
       /\ DOMAIN cities = {id}
       /\ Len(cities[id].citycells) = 3
       /\ cities[id].fuel = fuelOf(CityStart.teamUnits["A"][1].cargo)
                              + fuelOf(CityStart.teamUnits["A"][2].cargo)
       /\ C8_RegistryAndMapAgree

\* the cells every registered city lists are city tiles (the model's absorbCity
\* and destroyCity rely on it: the source would end with a TypeError otherwise)
ListedCellsAreTiles ==
  \A id \in DOMAIN cities : Range(cities[id].citycells) \subseteq DOMAIN citytile

\* ---- actions on units

SpawnWorker(team, pos, unitid) ==
  /\ SetGame(spawnWorker(Game, team, pos, unitid))
  /\ NewAccumulator
  /\ last' = [op |-> "spawnWorker"]

SpawnCart(team, pos, unitid) ==
  /\ SetGame(spawnCart(Game, team, pos, unitid))
  /\ NewAccumulator
  /\ last' = [op |-> "spawnCart"]

\* moveUnit is called with a validated direction: the destination is on the map
MoveUnit(team, unitid, direction) ==
  /\ hasUnit(Game, team, unitid)
  /\ inMap(translate(getUnit(Game, team, unitid).pos, direction))
  /\ SetGame(moveUnit(Game, team, unitid, direction))
  /\ NewAccumulator
  /\ last' = [op |-> "moveUnit"]

DestroyUnit(team, unitid) ==
  /\ hasUnit(Game, team, unitid)
  /\ SetGame(destroyUnit(Game, team, unitid))
  /\ NewAccumulator
  /\ last' = [op |-> "destroyUnit"]

\* ---- handleMovementActions

\* a MoveAction as validateCommand builds it: newcell is the cell one step
\* from the unit in the direction
MoveAction(g, team, unitid, direction) ==
  [team |-> team, unitid |-> unitid, direction |-> direction,
   newcell |-> translate(getUnit(g, team, unitid).pos, direction)]

\* cellsToActionsToThere after the first forEach: cell -> the actions to there,
\* in the order of the batch
RECURSIVE cellsToActions(_)
cellsToActions(actions) ==
  IF actions = <<>> THEN EmptyMap
  ELSE LET front == cellsToActions(SubSeq(actions, 1, Len(actions) - 1))
           action == actions[Len(actions)]
       IN IF action.newcell \in DOMAIN front
          THEN [front EXCEPT ![action.newcell] = Append(@, action)]
          ELSE Put(front, action.newcell, <<action>>)

\* Array.from(cellsToActionsToThere.keys()): the cells in insertion order
actionedCells(actions) ==
  insertionOrder([i \in 1..Len(actions) |-> actions[i].newcell])

movingUnits(actions) == {actions[i].unitid : i \in 1..Len(actions)}

\* variant of revertAction: the moves into the unit's own cell are left alone
revertActionOriginKept(g, toThere, action) == toThere

\* revertAction: unless the unit's own cell is a city tile, the entry of that
\* cell is deleted and every action it held is reverted in turn
RECURSIVE revertAction(_, _, _)
RECURSIVE revertActions(_, _, _)
revertAction(g, toThere, action) ==
  LET origcell == getUnit(g, action.team, action.unitid).pos
  IN IF isCityTile(g, origcell) THEN toThere
     ELSE IF origcell \in DOMAIN toThere
          THEN revertActions(g, Remove(toThere, origcell), toThere[origcell])
          ELSE toThere

revertActions(g, toThere, actions) ==
  IF actions = <<>> THEN toThere
  ELSE revertActions(g, revertAction(g, toThere, Head(actions)), Tail(actions))

\* the single-action branch: the cell holds exactly one unit and it has no
\* move action in the batch
unitThereIsStill(g, cell, moving) ==
  /\ Cardinality(g.cellUnits[cell]) = 1
  /\ \A unit \in g.cellUnits[cell] : unit.id \notin moving

\* variant of actionsToRevert: moves that share a destination are let through
actionsToRevertSharedKept(g, cell, currActions, moving) ==
  IF isCityTile(g, cell) THEN <<>>
  ELSE IF Len(currActions) = 1 /\ unitThereIsStill(g, cell, moving) THEN currActions
  ELSE <<>>

\* variant of actionsToRevert: of the moves that share a destination the first
\* of the batch goes through
actionsToRevertFirstWins(g, cell, currActions, moving) ==
  IF isCityTile(g, cell) THEN <<>>
  ELSE IF Len(currActions) > 1 THEN Tail(currActions)
  ELSE IF Len(currActions) = 1 /\ unitThereIsStill(g, cell, moving) THEN currActions
  ELSE <<>>

\* variant of actionsToRevert: moves that share a city tile are reverted too
actionsToRevertCityBumps(g, cell, currActions, moving) ==
  IF Len(currActions) > 1 THEN currActions
  ELSE IF isCityTile(g, cell) THEN <<>>
  ELSE IF Len(currActions) = 1 /\ unitThereIsStill(g, cell, moving) THEN currActions
  ELSE <<>>

actionsToRevert(g, cell, currActions, moving) ==
  IF isCityTile(g, cell) THEN <<>>
  ELSE IF Len(currActions) > 1 THEN currActions
  ELSE IF Len(currActions) = 1 /\ unitThereIsStill(g, cell, moving) THEN currActions
  ELSE <<>>

\* one turn of the loop over actionedCells
resolveCell(g, toThere, cell, moving) ==
  IF cell \notin DOMAIN toThere THEN toThere
  ELSE LET reverted == actionsToRevert(g, cell, toThere[cell], moving)
       IN IF reverted = <<>> THEN toThere
          ELSE Remove(revertActions(g, toThere, reverted), cell)

RECURSIVE resolveCells(_, _, _, _)
resolveCells(g, toThere, cells, moving) ==
  IF cells = <<>> THEN toThere
  ELSE resolveCells(g, resolveCell(g, toThere, Head(cells), moving),
                    Tail(cells), moving)

\* prunedActions: what the entries left hold, in the order of the Map
RECURSIVE flatten(_, _)
flatten(toThere, cells) ==
  IF cells = <<>> THEN <<>>
  ELSE IF Head(cells) \in DOMAIN toThere
       THEN toThere[Head(cells)] \o flatten(toThere, Tail(cells))
       ELSE flatten(toThere, Tail(cells))

handleMovementActions(g, actions) ==
  flatten(resolveCells(g, cellsToActions(actions), actionedCells(actions),
                       movingUnits(actions)),
          actionedCells(actions))

\* variant of the deletion in revertAction: the entry stays
deleteOrigcellSkipped(toThere, origcell) == toThere

\* cellsToActionsToThere.delete(origcell) in revertAction
deleteOrigcell(toThere, origcell) == Remove(toThere, origcell)

\* the calls of revertAction (each gives match.throw one MatchWarn) made for
\* the pending actions, depth first as the forEach in revertAction goes: a call
\* deletes the entry of the unit's cell and the actions it held come next. The
\* count stops at the budget.
RECURSIVE revertActionCalls(_, _, _, _, _)
revertActionCalls(g, toThere, pending, calls, budget) ==
  IF pending = <<>> \/ calls >= budget THEN calls
  ELSE LET action == Head(pending)
           origcell == getUnit(g, action.team, action.unitid).pos
       IN IF isCityTile(g, origcell) \/ origcell \notin DOMAIN toThere
          THEN revertActionCalls(g, toThere, Tail(pending), calls + 1, budget)
          ELSE revertActionCalls(g, deleteOrigcell(toThere, origcell),
                                 toThere[origcell] \o Tail(pending),
                                 calls + 1, budget)

\* the calls of revertAction in the loop over actionedCells
RECURSIVE resolveCellsCalls(_, _, _, _, _, _)
resolveCellsCalls(g, toThere, cells, moving, calls, budget) ==
  IF cells = <<>> THEN calls
  ELSE LET cell == Head(cells)
           reverted == IF cell \in DOMAIN toThere
                       THEN actionsToRevert(g, cell, toThere[cell], moving)
                       ELSE <<>>
       IN resolveCellsCalls(g, resolveCell(g, toThere, cell, moving), Tail(cells),
                            moving,
                            revertActionCalls(g, toThere, reverted, calls, budget),
                            budget)

\* the calls of revertAction the loop itself makes, one for each action of
\* actionsToRevert
RECURSIVE resolveCellsFirstCalls(_, _, _, _)
resolveCellsFirstCalls(g, toThere, cells, moving) ==
  IF cells = <<>> THEN 0
  ELSE LET cell == Head(cells)
           reverted == IF cell \in DOMAIN toThere
                       THEN actionsToRevert(g, cell, toThere[cell], moving)
                       ELSE <<>>
       IN Len(reverted)
            + resolveCellsFirstCalls(g, resolveCell(g, toThere, cell, moving),
                                     Tail(cells), moving)

\* the calls of revertAction in a handleMovementActions call, counted up to
\* one more than twice the actions of the batch
handleMovementActionsCalls(g, actions) ==
  resolveCellsCalls(g, cellsToActions(actions), actionedCells(actions),
                    movingUnits(actions), 0, 2 * Len(actions) + 1)

handleMovementActionsFirstCalls(g, actions) ==
  resolveCellsFirstCalls(g, cellsToActions(actions), actionedCells(actions),
                         movingUnits(actions))

\* ---- the move a validateCommand call accepts for a unit

canMove(unit) == unit.cooldown < 1

validMove(g, team, unitid, direction) ==
  /\ hasUnit(g, team, unitid)
  /\ canMove(getUnit(g, team, unitid))
  /\ direction \in DIRECTIONS
  /\ direction # "c" =>
       LET newpos == translate(getUnit(g, team, unitid).pos, direction)
       IN /\ inMap(newpos)
          /\ ~(isCityTile(g, newpos) /\ g.citytile[newpos].team # team)

\* the batches of a turn: at most one validated move per unit, here in the
\* order of the unit ids
RECURSIVE batchesOf(_, _)
batchesOf(g, ids) ==
  IF ids = {} THEN {<<>>}
  ELSE LET id == CHOOSE i \in ids : \A j \in ids : i >= j
           team == CHOOSE t \in Teams : hasUnit(g, t, id)
           moves == {MoveAction(g, team, id, d) :
                       d \in {e \in DIRECTIONS : validMove(g, team, id, e)}}
           front == batchesOf(g, ids \ {id})
       IN front \cup {Append(b, m) : b \in front, m \in moves}

\* ---- actions of a turn's movement

HandleMovementActions(actions) ==
  /\ last.op # "handleMovementActions"
  /\ last' = [op |-> "handleMovementActions", actions |-> actions,
              pruned |-> handleMovementActions(Game, actions)]
  /\ UNCHANGED gameVars
  /\ UNCHANGED <<acc, turnActions>>

RECURSIVE moveUnits(_, _)
moveUnits(g, actions) ==
  IF actions = <<>> THEN g
  ELSE moveUnits(moveUnit(g, Head(actions).team, Head(actions).unitid,
                          Head(actions).direction),
                 Tail(actions))

\* the turn applies the pruned moves, one moveUnit call each
ApplyMoves ==
  /\ last.op = "handleMovementActions"
  /\ SetGame(moveUnits(Game, last.pruned))
  /\ NewAccumulator
  /\ last' = NoCall

\* ---- a game of moving units: city tiles are built and destroyed, workers are
\* ---- built on city tiles of their team, each turn's moves are pruned and applied

InitMove ==
  /\ IsGame(NewGame)
  /\ TurnStart
  /\ last = NoCall

NextMove ==
  \/ \E pos \in Positions :
        /\ last.op # "handleMovementActions"
        /\ Cardinality(DOMAIN citytile) < MoveMaxTiles
        /\ globalCityIDCount < MoveMaxCityID
        /\ SpawnCityTile("A", pos, 0)
  \/ \E cityID \in DOMAIN cities :
        /\ last.op # "handleMovementActions"
        /\ DestroyCity(cityID)
  \/ \E pos \in DOMAIN citytile :
        /\ last.op # "handleMovementActions"
        /\ globalUnitIDCount < MoveMaxUnits
        /\ SpawnWorker(citytile[pos].team, pos, 0)
  \/ \E actions \in batchesOf(Game, LiveIds(Game)) :
        /\ actions # <<>>
        /\ HandleMovementActions(actions)
  \/ ApplyMoves

SpecMove == InitMove /\ [][NextMove]_vars

\* ---- what a call of handleMovementActions returned

resolved == last.op = "handleMovementActions"

asSet(actions) == {actions[i] : i \in 1..Len(actions)}

accepted(action) == action \in asSet(last.pruned)

rejected(action) == action \in asSet(last.actions) \ asSet(last.pruned)

originOf(action) == getUnit(Game, action.team, action.unitid).pos

\* a unit stays when it has no move in the batch or its move was rejected
stays(unitid) ==
  \A action \in asSet(last.actions) : action.unitid = unitid => rejected(action)

\* C2: no move that handleMovementActions returns ends on a cell that is not a
\* city tile and on which a unit stays this turn, however many units the cell
\* holds
C2_NoMoveOntoStayingUnit ==
  resolved =>
    \A action \in asSet(last.pruned) :
      ~isCityTile(Game, action.newcell) =>
        \A unit \in cellUnits[action.newcell] : ~stays(unit.id)

\* C3: two returned moves end on the same cell only if it is a city tile, and
\* when moves of the batch share a destination that is not a city tile all of
\* them are rejected
C3_NoSharedDestination ==
  resolved =>
    /\ \A a, b \in asSet(last.pruned) :
         a # b /\ a.newcell = b.newcell => isCityTile(Game, a.newcell)
    /\ \A a, b \in asSet(last.actions) :
         a # b /\ a.newcell = b.newcell /\ ~isCityTile(Game, a.newcell)
           => rejected(a) /\ rejected(b)

C3_Witness ==
  /\ resolved
  /\ last.pruned # <<>>
  /\ \E a, b \in asSet(last.actions) :
       a # b /\ a.newcell = b.newcell /\ ~isCityTile(Game, a.newcell)
         /\ rejected(a) /\ rejected(b)

permuted(actions, p) == [i \in 1..Len(actions) |-> actions[p[i]]]

\* C4: every order of the batch gives the same set of returned moves
C4_Confluent ==
  resolved =>
    \A p \in Permutations(1..Len(last.actions)) :
      asSet(handleMovementActions(Game, permuted(last.actions, p)))
        = asSet(last.pruned)

C4_Witness ==
  /\ resolved
  /\ Len(last.actions) = 3
  /\ Len(last.pruned) = 1
  /\ \E a, b \in asSet(last.actions) : a # b /\ a.newcell = b.newcell

\* the batch of the bump: A at (0,0) moves east, B at (2,0) moves west, C at
\* (0,1) moves north into the cell A is on, and none of the cells is a city tile
bumpWithFollower ==
  /\ resolved
  /\ DOMAIN citytile = {}
  /\ \E a, b, c \in asSet(last.actions) :
       /\ asSet(last.actions) = {a, b, c}
       /\ originOf(a) = <<0, 0>> /\ a.direction = "e"
       /\ originOf(b) = <<2, 0>> /\ b.direction = "w"
       /\ originOf(c) = <<0, 1>> /\ c.direction = "n"

\* C5: when a move is rejected and the cell its unit is on is not a city tile,
\* every move of the batch into that cell is rejected as well; the bump of A and
\* B with C following A leaves no move
C5_RejectionPropagatesBack ==
  /\ resolved =>
       \A a \in asSet(last.actions) :
         rejected(a) /\ ~isCityTile(Game, originOf(a)) =>
           \A b \in asSet(last.actions) : b.newcell = originOf(a) => rejected(b)
  /\ bumpWithFollower => last.pruned = <<>>

C5_Witness == bumpWithFollower /\ last.pruned = <<>>

\* ---- the unit registry and the cells: spawn, move, destroy

InitUnits ==
  /\ IsGame(NewGame)
  /\ TurnStart
  /\ last = NoCall

CanSpawnUnits ==
  /\ Cardinality(LiveIds(Game)) < UnitsMaxLive
  /\ SpawnsSoFar(Game) < UnitsMaxSpawns

NextUnits ==
  \/ \E team \in Teams, pos \in Positions, unitid \in {0} \cup SuppliableUnitIds(Game) :
        CanSpawnUnits /\ SpawnWorker(team, pos, unitid)
  \/ \E team \in Teams, pos \in Positions, unitid \in {0} \cup SuppliableUnitIds(Game) :
        CanSpawnUnits /\ SpawnCart(team, pos, unitid)
  \/ \E team \in Teams, unitid \in LiveIds(Game), direction \in DIRECTIONS :
        MoveUnit(team, unitid, direction)
  \/ \E team \in Teams, unitid \in LiveIds(Game) :
        DestroyUnit(team, unitid)

SpecUnits == InitUnits /\ [][NextUnits]_vars

\* ---- claims about units

cellsHolding(team, unitid) ==
  {p \in Positions : \E u \in cellUnits[p] : u.id = unitid /\ u.team = team}

ResourceTypes == {"wood", "coal", "uranium"}

RECURSIVE gcd(_, _)
gcd(a, b) == IF b = 0 THEN a ELSE gcd(b, a % b)

abs(a) == IF a < 0 THEN -a ELSE a

\* the fraction n/d in lowest terms, d > 0
Frac(n, d) ==
  LET g == gcd(abs(n), d)
  IN [n |-> n \div g, d |-> d \div g]

Whole(n) == [n |-> n, d |-> 1]

fracAdd(x, y) == Frac(x.n * y.d + y.n * x.d, x.d * y.d)
fracSub(x, y) == Frac(x.n * y.d - y.n * x.d, x.d * y.d)
fracDiv(x, k) == Frac(x.n, x.d * k)
fracLess(x, y) == x.n * y.d < y.n * x.d
fracMin(x, y) == IF fracLess(y, x) THEN y ELSE x
\* variant of floor: the amount is rounded up
ceiling(x) == -((-x.n) \div x.d)

\* Math.floor
floor(x) == x.n \div x.d

\* Cell.hasResource: a resource with something left
hasResource(g, pos) ==
  pos \in DOMAIN g.resource /\ g.resource[pos].amount.n > 0

\* a resource the map generator put on a cell
withResource(g, pos, type, amount) ==
  [g EXCEPT !.resource = Put(@, pos, [type |-> type, amount |-> Whole(amount)])]

\* a team that has researched a resource type
withResearched(g, team, type) ==
  [g EXCEPT !.researched[team][type] = TRUE]

\* Unit.getCargoSpaceLeft
cargoTotal(cargo) == cargo.wood + cargo.coal + cargo.uranium
capacityOf(type) == IF type = WORKER THEN WorkerCargoCapacity ELSE CartCargoCapacity
getCargoSpaceLeft(unit) == capacityOf(unit.type) - cargoTotal(unit.cargo)

WORKER_COLLECTION_RATE(type) ==
  CASE type = "wood" -> CollectionRateWood
    [] type = "coal" -> CollectionRateCoal
    [] type = "uranium" -> CollectionRateUranium

\* ---- handleResourceRelease

\* cell.units.forEach: the units of a cell, here by id
RECURSIVE unitsInOrder(_)
unitsInOrder(units) ==
  IF units = {} THEN <<>>
  ELSE LET first == CHOOSE u \in units : \A v \in units : u.id <= v.id
       IN <<first>> \o unitsInOrder(units \ {first})

\* variant of the receivers' test: the team's research is not looked at
canReceiveUnresearched(g, u, type) ==
  getUnit(g, u.team, u.id).type = WORKER

canReceive(g, u, type) ==
  /\ getUnit(g, u.team, u.id).type = WORKER
  /\ g.researched[u.team][type]

RECURSIVE workersOn(_, _, _)
workersOn(g, cells, type) ==
  IF cells = <<>> THEN <<>>
  ELSE SelectSeq(unitsInOrder(g.cellUnits[Head(cells)]),
                 LAMBDA u : canReceive(g, u, type))
         \o workersOn(g, Tail(cells), type)

\* the workers on the cell and on the cells next to it whose team can mine the type
workersToReceiveResources(g, pos, type) ==
  workersOn(g, <<pos>> \o getAdjacentCells(pos), type)

spaceLeftOf(g, u) == getCargoSpaceLeft(getUnit(g, u.team, u.id))

\* Array.prototype.sort by getCargoSpaceLeft, least first; workers with the same
\* space keep their order (and get the same amount either way)
RECURSIVE insertBySpace(_, _, _)
insertBySpace(g, sorted, u) ==
  IF sorted = <<>> THEN <<u>>
  ELSE IF spaceLeftOf(g, u) < spaceLeftOf(g, Head(sorted))
       THEN <<u>> \o sorted
       ELSE <<Head(sorted)>> \o insertBySpace(g, Tail(sorted), u)

\* variant of the sort: the workers stay in the order they were found
sortBySpaceSkipped(g, workers) == workers

RECURSIVE sortBySpace(_, _)
sortBySpace(g, workers) ==
  IF workers = <<>> THEN <<>>
  ELSE insertBySpace(g, sortBySpace(g, SubSeq(workers, 1, Len(workers) - 1)),
                     workers[Len(workers)])

\* variant of distributeAmount: the space the worker has left is not looked at
distributeAmountSpaceIgnored(g, u, rate, amountToDistribute, left) ==
  fracMin(fracDiv(amountToDistribute, left), Whole(rate))

\* variant of distributeAmount: the pool is split among one worker more
distributeAmountOneMore(g, u, rate, amountToDistribute, left) ==
  fracMin(fracMin(Whole(spaceLeftOf(g, u)), fracDiv(amountToDistribute, left + 1)),
          Whole(rate))

\* what worker i (from 0) of the sorted workers is given before flooring
distributeAmount(g, u, rate, amountToDistribute, left) ==
  fracMin(fracMin(Whole(spaceLeftOf(g, u)), fracDiv(amountToDistribute, left)),
          Whole(rate))

\* the forEach over the sorted workers: cargo and stats get the floored amount,
\* amountToDistribute and amountDistributed the amount itself
RECURSIVE distribute(_, _, _, _, _)
distribute(g, workers, type, amountToDistribute, amountDistributed) ==
  IF workers = <<>> THEN [game |-> g, amountDistributed |-> amountDistributed]
  ELSE LET u == Head(workers)
           rate == WORKER_COLLECTION_RATE(type)
           given == distributeAmount(g, u, rate, amountToDistribute, Len(workers))
           g2 == [g EXCEPT
                    !.teamUnits[u.team][u.id].cargo[type] = @ + floor(given),
                    !.stats[u.team].resourcesCollected[type] = @ + floor(given)]
       IN distribute(g2, Tail(workers), type, fracSub(amountToDistribute, given),
                     fracAdd(amountDistributed, given))

\* amounts are fractions with small denominators: one below 1e-10 is not positive
belowEpsilon(x) == x.n <= 0

handleResourceRelease(g, pos) ==
  IF ~hasResource(g, pos) THEN g
  ELSE LET type == g.resource[pos].type
           workers == workersToReceiveResources(g, pos, type)
           rate == WORKER_COLLECTION_RATE(type)
           amountToDistribute ==
             fracMin(Whole(rate * Len(workers)), g.resource[pos].amount)
           done == distribute(g, sortBySpace(g, workers), type,
                              amountToDistribute, Whole(0))
           amount == fracSub(g.resource[pos].amount, done.amountDistributed)
       IN [done.game EXCEPT
             !.resource[pos].amount = IF belowEpsilon(amount) THEN Whole(0) ELSE amount]

\* ---- a map with a wood cell and a uranium cell that share neighbours, units
\* ---- around them, and the turn's handleResourceRelease calls

WoodCell == <<1, 0>>
UraniumCell == <<0, 1>>

ReleaseBase(wood) ==
  withResearched(
    withResource(withResource(NewGame, WoodCell, "wood", wood), UraniumCell, "uranium", 2),
    "A", "uranium")

ReleasePositions == {<<0, 0>>, <<1, 0>>, <<2, 0>>, <<2, 1>>}

\* a worker of team A that carries no or two wood, a worker of team B, or a
\* cart of team A
unitAdded(g, type, team, pos, wood) ==
  LET spawned == spawnUnit(g, type, team, pos, 0)
  IN withCargo(spawned, team, spawned.globalUnitIDCount,
               [wood |-> wood, coal |-> 0, uranium |-> 0])

unitsAdded(g) ==
  {unitAdded(g, WORKER, "A", pos, wood) : pos \in ReleasePositions, wood \in {0, 2}}
    \cup {unitAdded(g, WORKER, "B", pos, 0) : pos \in ReleasePositions}
    \cup {unitAdded(g, CART, "A", pos, 0) : pos \in ReleasePositions}

RECURSIVE releaseGames(_)
releaseGames(n) ==
  IF n = 0 THEN {ReleaseBase(wood) : wood \in 1..ReleaseMaxAmount}
  ELSE LET fewer == releaseGames(n - 1)
       IN fewer \cup
          UNION {unitsAdded(g) : g \in {h \in fewer : Cardinality(LiveIds(h)) = n - 1}}

HandleResourceRelease(pos) ==
  /\ SetGame(handleResourceRelease(Game, pos))
  /\ NewAccumulator
  /\ last' = [op |-> "handleResourceRelease", pos |-> pos,
              amount |-> resource[pos].amount]

InitRelease ==
  /\ \E g \in releaseGames(ReleaseMaxUnits) : IsGame(g)
  /\ TurnStart
  /\ last = NoCall

\* called for the cells that hold a resource, also one with nothing left
NextRelease == \E pos \in DOMAIN resource : HandleResourceRelease(pos)

SpecRelease == InitRelease /\ [][NextRelease]_vars

\* ---- what a handleResourceRelease call did

AllUnits == {[team |-> t, id |-> id] : t \in Teams, id \in 1..ReleaseMaxUnits + 1}

liveUnits == {u \in AllUnits : u.id \in DOMAIN teamUnits[u.team]}

credited(u, type) ==
  teamUnits'[u.team][u.id].cargo[type] - teamUnits[u.team][u.id].cargo[type]

RECURSIVE creditedSum(_, _)
creditedSum(units, type) ==
  IF units = {} THEN 0
  ELSE LET u == CHOOSE v \in units : TRUE
       IN credited(u, type) + creditedSum(units \ {u}, type)

\* the workers on the cell or next to it whose team has researched the type
eligible(pos, type) ==
  {u \in liveUnits :
     /\ teamUnits[u.team][u.id].type = WORKER
     /\ researched[u.team][type]
     /\ (teamUnits[u.team][u.id].pos = pos
           \/ isAdjacent(teamUnits[u.team][u.id].pos, pos))}

fracLeq(x, y) == ~fracLess(y, x)

released == last'.op = "handleResourceRelease" /\ hasResource(Game, last'.pos)

\* C11: a handleResourceRelease call credits the workers, in floored amounts, at
\* most the rate times the eligible workers and at most what the cell held; the
\* amount of the cell does not grow and ends at 0 or above
C11_ReleaseConservesMass ==
  [][released =>
       LET pos == last'.pos
           type == resource[pos].type
           sum == creditedSum(liveUnits, type)
       IN /\ sum <= WORKER_COLLECTION_RATE(type) * Cardinality(eligible(pos, type))
          /\ fracLeq(Whole(sum), resource[pos].amount)
          /\ fracLeq(resource'[pos].amount, resource[pos].amount)
          /\ resource'[pos].amount.n >= 0]_vars

\* three workers shared five wood: each got one, the cell is empty
C11_Witness ==
  /\ last.op = "handleResourceRelease"
  /\ last.pos = WoodCell
  /\ last.amount = Whole(5)
  /\ resource[WoodCell].amount = Whole(0)
  /\ stats["A"].resourcesCollected.wood + stats["B"].resourcesCollected.wood = 3

withinCapacity(unit) == cargoTotal(unit.cargo) <= capacityOf(unit.type)

\* C12: a call credits a worker at most the space it had left and at most the
\* rate, so a unit within its capacity stays within it, call after call
C12_CreditWithinSpaceAndRate ==
  [][released =>
       LET type == resource[last'.pos].type
       IN \A u \in liveUnits :
            /\ withinCapacity(teamUnits[u.team][u.id]) =>
                 /\ credited(u, type) <= getCargoSpaceLeft(teamUnits[u.team][u.id])
                 /\ credited(u, type) <= WORKER_COLLECTION_RATE(type)
                 /\ withinCapacity(teamUnits'[u.team][u.id])
            /\ \A other \in ResourceTypes \ {type} : credited(u, other) = 0]_vars

\* a worker next to both cells was filled by the uranium cell and then got
\* nothing of the wood there was
C12_Witness ==
  /\ last.op = "handleResourceRelease"
  /\ last.pos = WoodCell
  /\ last.amount.n > 0
  /\ resource[WoodCell].amount = last.amount
  /\ \E id \in DOMAIN teamUnits["A"] :
       /\ teamUnits["A"][id].type = WORKER
       /\ teamUnits["A"][id].pos = <<0, 0>>
       /\ teamUnits["A"][id].cargo.uranium >= 1
       /\ cargoTotal(teamUnits["A"][id].cargo) = WorkerCargoCapacity

\* ---- validateCommand

\* parseInt on the tokens used for coordinates and amounts: digits up to the
\* first character that is none, NaN when there is none
NaN == [nan |-> TRUE, n |-> 0]
Num(n) == [nan |-> FALSE, n |-> n]
parseInt(token) ==
  CASE token = "0" -> Num(0)
    [] token = "1" -> Num(1)
    [] token = "2" -> Num(2)
    [] token = "3" -> Num(3)
    [] token = "-1" -> Num(-1)
    [] token = "1x" -> Num(1)
    [] OTHER -> NaN
isNaN(v) == v.nan

DebugActions == {"dc", "dl", "dx", "dt", "dst"}

\* Unit.canAct, CityTile.canBuildUnit, CityTile.canResearch: no cooldown left
canAct(unit) == unit.cooldown < 1
canBuildUnit(tile) == tile.cooldown < 1
canResearch(tile) == tile.cooldown < 1

\* what actionsPlaced holds: the id of a unit, the id of a city tile (the id
\* of its city and its coordinates)
unitKey(uid) == <<"u", uid, 0, 0>>
getTileID(g, pos) == <<"c", g.citytile[pos].cityid, pos[1], pos[2]>>

teamCityTilesCount(g, team) ==
  LET own == {id \in DOMAIN g.cities : g.cities[id].team = team}
      RECURSIVE count(_)
      count(ids) ==
        IF ids = {} THEN 0
        ELSE LET id == CHOOSE i \in ids : TRUE
             IN Len(g.cities[id].citycells) + count(ids \ {id})
  IN count(own)

teamUnitsSize(g, team) == Cardinality(DOMAIN g.teamUnits[team])

\* variant of workerUnitCapReached: the cap is reached only above the tile count
workerUnitCapReachedAbove(g, team, offset) ==
  teamUnitsSize(g, team) + offset > teamCityTilesCount(g, team)

workerUnitCapReached(g, team, offset) ==
  teamUnitsSize(g, team) + offset >= teamCityTilesCount(g, team)

cartUnitCapReached(g, team, offset) ==
  teamUnitsSize(g, team) + offset >= teamCityTilesCount(g, team)

\* what a call gives: the accumulator after it, and a MatchWarn thrown, null
\* returned or an Action returned (its kind, team and the unit or tile that acts)
Thrown(accStats) ==
  [acc |-> accStats, kind |-> "MatchWarn", action |-> "", actor |-> <<>>]
ReturnedNull(accStats) ==
  [acc |-> accStats, kind |-> "null", action |-> "", actor |-> <<>>]
Returned(accStats, action, actor) ==
  [acc |-> accStats, kind |-> "Action", action |-> action, actor |-> actor]

\* variant of actionsPlaced.add: the key is added for every team
placedForAll(accStats, team, key) ==
  [t \in Teams |-> [accStats[t] EXCEPT !.actionsPlaced = @ \cup {key}]]

placed(accStats, team, key) ==
  [accStats EXCEPT ![team].actionsPlaced = @ \cup {key}]

\* variant of the pillage case: actionsPlaced is not looked at
validatePillageUnchecked(g, accStats, team, args) ==
  LET uid == args[1]
  IN IF Len(args) # 1 THEN Thrown(accStats)
     ELSE IF ~hasUnit(g, team, uid) THEN Thrown(accStats)
     ELSE IF ~canAct(getUnit(g, team, uid)) THEN Thrown(accStats)
     ELSE Returned(placed(accStats, team, unitKey(uid)), "p", <<"unit", uid, 0>>)

validatePillage(g, accStats, team, args) ==
  LET uid == args[1]
  IN IF Len(args) # 1 THEN Thrown(accStats)
     ELSE IF ~hasUnit(g, team, uid) THEN Thrown(accStats)
     ELSE IF ~canAct(getUnit(g, team, uid)) THEN Thrown(accStats)
     ELSE IF unitKey(uid) \in accStats[team].actionsPlaced THEN Thrown(accStats)
     ELSE Returned(placed(accStats, team, unitKey(uid)), "p", <<"unit", uid, 0>>)

validateBuildCity(g, accStats, team, args) ==
  LET uid == args[1]
      unit == getUnit(g, team, uid)
  IN IF Len(args) # 1 THEN Thrown(accStats)
     ELSE IF ~hasUnit(g, team, uid) THEN Thrown(accStats)
     ELSE IF isCityTile(g, unit.pos) THEN Thrown(accStats)
     ELSE IF hasResource(g, unit.pos) THEN Thrown(accStats)
     ELSE IF ~canAct(unit) THEN Thrown(accStats)
     ELSE IF unit.cargo.wood < CITY_WOOD_COST THEN Thrown(accStats)
     ELSE IF unitKey(uid) \in accStats[team].actionsPlaced THEN Thrown(accStats)
     ELSE Returned(placed(accStats, team, unitKey(uid)), "bcity", <<"unit", uid, 0>>)

\* variant of the bw / bc case: the builds of both teams are the offset of the cap
validateBuildUnitSharedCount(g, accStats, team, action, args) ==
  LET x == parseInt(args[1])
      y == parseInt(args[2])
      pos == <<x.n, y.n>>
      tileID == getTileID(g, pos)
      offset == IF action = "bc"
                THEN accStats["A"].cartsBuilt + accStats["B"].cartsBuilt
                ELSE accStats["A"].workersBuilt + accStats["B"].workersBuilt
      capReached == IF action = "bc" THEN cartUnitCapReached(g, team, offset)
                    ELSE workerUnitCapReached(g, team, offset)
      built == IF action = "bc" THEN "cartsBuilt" ELSE "workersBuilt"
  IN IF Len(args) # 2 THEN Thrown(accStats)
     ELSE IF isNaN(x) \/ isNaN(y) \/ ~inMap(pos) THEN Thrown(accStats)
     ELSE IF ~isCityTile(g, pos) \/ g.citytile[pos].team # team THEN Thrown(accStats)
     ELSE IF tileID \in accStats[team].actionsPlaced THEN Thrown(accStats)
     ELSE IF ~canBuildUnit(g.citytile[pos]) THEN Thrown(accStats)
     ELSE IF capReached THEN Thrown(accStats)
     ELSE Returned([placed(accStats, team, tileID) EXCEPT ![team][built] = @ + 1],
                   action, <<"tile", pos[1], pos[2]>>)

validateBuildUnit(g, accStats, team, action, args) ==
  LET x == parseInt(args[1])
      y == parseInt(args[2])
      pos == <<x.n, y.n>>
      tileID == getTileID(g, pos)
      capReached == IF action = "bc"
                    THEN cartUnitCapReached(g, team, accStats[team].cartsBuilt)
                    ELSE workerUnitCapReached(g, team, accStats[team].workersBuilt)
      built == IF action = "bc" THEN "cartsBuilt" ELSE "workersBuilt"
  IN IF Len(args) # 2 THEN Thrown(accStats)
     ELSE IF isNaN(x) \/ isNaN(y) \/ ~inMap(pos) THEN Thrown(accStats)
     ELSE IF ~isCityTile(g, pos) \/ g.citytile[pos].team # team THEN Thrown(accStats)
     ELSE IF tileID \in accStats[team].actionsPlaced THEN Thrown(accStats)
     ELSE IF ~canBuildUnit(g.citytile[pos]) THEN Thrown(accStats)
     ELSE IF capReached THEN Thrown(accStats)
     ELSE Returned([placed(accStats, team, tileID) EXCEPT ![team][built] = @ + 1],
                   action, <<"tile", pos[1], pos[2]>>)

validateMove(g, accStats, team, args) ==
  LET uid == args[1]
      direction == args[2]
      unit == getUnit(g, team, uid)
      newpos == translate(unit.pos, direction)
  IN IF Len(args) # 2 THEN Thrown(accStats)
     ELSE IF ~hasUnit(g, team, uid) THEN Thrown(accStats)
     ELSE IF ~canMove(unit) THEN Thrown(accStats)
     ELSE IF unitKey(uid) \in accStats[team].actionsPlaced THEN Thrown(accStats)
     ELSE IF direction \notin DIRECTIONS THEN Thrown(accStats)
     ELSE IF direction # "c" /\ ~inMap(newpos) THEN Thrown(accStats)
     ELSE IF direction # "c" /\ isCityTile(g, newpos)
               /\ g.citytile[newpos].team # team THEN Thrown(accStats)
     ELSE Returned(placed(accStats, team, unitKey(uid)), "m", <<"unit", uid, 0>>)

validateResearch(g, accStats, team, args) ==
  LET x == parseInt(args[1])
      y == parseInt(args[2])
      pos == <<x.n, y.n>>
      tileID == getTileID(g, pos)
  IN IF Len(args) # 2 THEN Thrown(accStats)
     ELSE IF isNaN(x) \/ isNaN(y) \/ ~inMap(pos) THEN Thrown(accStats)
     ELSE IF ~isCityTile(g, pos) \/ g.citytile[pos].team # team THEN Thrown(accStats)
     ELSE IF ~canResearch(g.citytile[pos]) THEN Thrown(accStats)
     ELSE IF tileID \in accStats[team].actionsPlaced THEN Thrown(accStats)
     ELSE Returned(placed(accStats, team, tileID), "r", <<"tile", pos[1], pos[2]>>)

validateTransfer(g, accStats, team, args) ==
  LET srcID == args[1]
      destID == args[2]
      resourceType == args[3]
      amount == parseInt(args[4])
      srcUnit == getUnit(g, team, srcID)
      destUnit == getUnit(g, team, destID)
  IN IF Len(args) # 4 THEN Thrown(accStats)
     ELSE IF ~hasUnit(g, team, srcID) THEN Thrown(accStats)
     ELSE IF ~hasUnit(g, team, destID) THEN Thrown(accStats)
     ELSE IF ~canAct(srcUnit) THEN Thrown(accStats)
     ELSE IF unitKey(srcID) \in accStats[team].actionsPlaced THEN Thrown(accStats)
     ELSE IF srcID = destID THEN Thrown(accStats)
     ELSE IF ~isAdjacent(srcUnit.pos, destUnit.pos) THEN Thrown(accStats)
     ELSE IF isNaN(amount) \/ amount.n < 0 THEN Thrown(accStats)
     ELSE IF resourceType \notin ResourceTypes THEN Thrown(accStats)
     ELSE Returned(placed(accStats, team, unitKey(srcID)), "t", <<"unit", srcID, 0>>)

\* cmd.command.split(' ') always has a first token
validateCommand(g, accStats, cmd) ==
  LET action == Head(cmd.command)
      args == Tail(cmd.command)
      team == cmd.agentID
  IN CASE action \in DebugActions -> ReturnedNull(accStats)
       [] action = "p" -> validatePillage(g, accStats, team, args)
       [] action = "bcity" -> validateBuildCity(g, accStats, team, args)
       [] action \in {"bc", "bw"} -> validateBuildUnit(g, accStats, team, action, args)
       [] action = "m" -> validateMove(g, accStats, team, args)
       [] action = "r" -> validateResearch(g, accStats, team, args)
       [] action = "t" -> validateTransfer(g, accStats, team, args)
       [] OTHER -> Thrown(accStats)

\* ---- the games commands are validated for: a map with one resource cell, city
\* ---- tiles and units put there by spawnCityTile, spawnWorker and spawnCart

\* a unit whose turn left it a cooldown
withCooldown(g, team, unitid, cooldown) ==
  [g EXCEPT !.teamUnits[team][unitid].cooldown = cooldown]

ValidateBase == withResource(NewGame, <<2, 1>>, "wood", 1)

FirstTile == <<"A", <<0, 0>>>>
LaterTiles == {<<"A", <<1, 0>>>>, <<"A", <<2, 0>>>>, <<"B", <<1, 0>>>>}

tilesOf(g) == Cardinality(DOMAIN g.citytile)

RECURSIVE gamesWithTiles(_)
gamesWithTiles(n) ==
  IF n = 0 THEN {ValidateBase}
  ELSE LET fewer == gamesWithTiles(n - 1)
           tiles == IF n = 1 THEN {FirstTile} ELSE LaterTiles
       IN fewer \cup
          UNION {{spawnCityTile(g, t[1], t[2], 0).game :
                    t \in {u \in tiles : ~isCityTile(g, u[2])}} :
                   g \in {h \in fewer : tilesOf(h) = n - 1}}

UnitPositions == {<<0, 0>>, <<1, 0>>, <<1, 1>>, <<2, 1>>}

loaded == [wood |-> CITY_WOOD_COST, coal |-> 0, uranium |-> 0]

\* the first unit: a worker, a worker or a cart that carries the wood of a city
\* tile, or a worker with a cooldown
firstUnits(g) ==
  UNION {{spawnWorker(g, "A", pos, 0),
          withCargo(spawnWorker(g, "A", pos, 0), "A", g.globalUnitIDCount + 1, loaded),
          withCargo(spawnCart(g, "A", pos, 0), "A", g.globalUnitIDCount + 1, loaded),
          withCooldown(spawnWorker(g, "A", pos, 0), "A", g.globalUnitIDCount + 1, 1)} :
           pos \in UnitPositions}

RECURSIVE gamesWithUnits(_, _)
gamesWithUnits(games, n) ==
  IF n = 0 THEN games
  ELSE LET fewer == gamesWithUnits(games, n - 1)
           full == {h \in fewer : teamUnitsSize(h, "A") = n - 1}
       IN fewer \cup
          IF n = 1 THEN UNION {firstUnits(g) : g \in full}
          ELSE {spawnWorker(g, "A", pos, 0) : g \in full, pos \in UnitPositions}

ValidateGames == gamesWithUnits(gamesWithTiles(ValidateMaxTiles), ValidateMaxUnits)

\* ---- a turn of commands

counted(bag, e) ==
  IF e \in DOMAIN bag THEN [bag EXCEPT ![e] = @ + 1] ELSE Put(bag, e, 1)

ValidateCommand(cmd) ==
  LET call == validateCommand(Game, acc, cmd)
  IN /\ acc' = call.acc
     /\ turnActions' = IF call.kind = "Action"
                       THEN counted(turnActions, <<call.action, call.actor>>)
                       ELSE turnActions
     /\ last' = [op |-> "validateCommand"]
     /\ UNCHANGED gameVars

\* the next turn's commands are validated with a new accumulator
NewTurn ==
  /\ ~TurnStart
  /\ NewAccumulator
  /\ last' = NoCall
  /\ UNCHANGED gameVars

\* the tokens of the commands: ids of units and one id of no unit, directions
\* and a token that is none, coordinates in and off the map and tokens that
\* are no number
UnitIdTokens == 1..(ValidateMaxUnits + 1)
DirectionTokens == DIRECTIONS \cup {"x"}
XTokens == {"0", "1", "1x", "2", "x"}
YTokens == {"0", "2"}
TransferTokens == {<<"wood", "1">>, <<"bad", "1">>, <<"wood", "-1">>, <<"wood", "x">>}

InitValidate ==
  /\ \E g \in ValidateGames : IsGame(g)
  /\ TurnStart
  /\ last = NoCall

NextValidate ==
  \/ \E team \in Teams :
       \/ \E uid \in UnitIdTokens :
            ValidateCommand([agentID |-> team, command |-> <<"p", uid>>])
       \/ \E uid \in UnitIdTokens :
            ValidateCommand([agentID |-> team, command |-> <<"bcity", uid>>])
       \/ \E uid \in UnitIdTokens, direction \in DirectionTokens :
            ValidateCommand([agentID |-> team, command |-> <<"m", uid, direction>>])
       \/ \E src, dest \in UnitIdTokens, tokens \in TransferTokens :
            ValidateCommand([agentID |-> team,
                             command |-> <<"t", src, dest, tokens[1], tokens[2]>>])
       \/ \E action \in {"r", "bw", "bc"}, x \in XTokens, y \in YTokens :
            ValidateCommand([agentID |-> team, command |-> <<action, x, y>>])
       \/ \E action \in DebugActions :
            ValidateCommand([agentID |-> team, command |-> <<action, "0", "0">>])
       \/ \E command \in {<<"p">>, <<"m", "n">>, <<"zz", "0">>, <<"bw", "0">>} :
            ValidateCommand([agentID |-> team, command |-> command])
  \/ NewTurn

SpecValidate == InitValidate /\ [][NextValidate]_vars

\* ---- what the turn's commands were answered with

UnitActions == {"m", "t", "bcity", "p"}
TileActions == {"r", "bw", "bc"}

RECURSIVE total(_, _)
total(bag, keys) ==
  IF keys = {} THEN 0
  ELSE LET k == CHOOSE e \in keys : TRUE
       IN bag[k] + total(bag, keys \ {k})

\* the actions of the given kinds returned this turn for an actor
returnedFor(actions, actor) ==
  total(turnActions, {k \in DOMAIN turnActions : k[1] \in actions /\ k[2] = actor})

\* the builds (bw and bc) returned this turn for the tiles of a team
buildsReturned(team) ==
  total(turnActions,
        {k \in DOMAIN turnActions :
           /\ k[1] \in {"bw", "bc"}
           /\ citytile[<<k[2][2], k[2][3]>>].team = team})

\* C1: the units of a team and the builds of workers and carts accepted for it
\* this turn, counted together, never exceed the city tiles of the team
C1_BuildsSharePool ==
  \A team \in Teams :
    buildsReturned(team) >= 1 =>
      teamUnitsSize(Game, team) + buildsReturned(team)
        <= teamCityTilesCount(Game, team)

rejects(team, command) ==
  validateCommand(Game, acc, [agentID |-> team, command |-> command]).kind
    = "MatchWarn"

\* the commands for a unit, and for the tile at (x, y)
unitCommands(uid) ==
  {<<"p", uid>>, <<"bcity", uid>>}
    \cup {<<"m", uid, d>> : d \in DIRECTIONS}
    \cup {<<"t", uid, dest, "wood", "1">> : dest \in UnitIdTokens}

tileCommands(pos) ==
  {<<action, x, y>> : action \in TileActions,
     x \in {t \in XTokens : parseInt(t) = Num(pos[1])},
     y \in {t \in YTokens : parseInt(t) = Num(pos[2])}}

\* C10: in a turn at most one action is returned for a unit and at most one for
\* a city tile, and a command for a unit or a tile that has one is rejected
C10_OneActionPerActor ==
  /\ \A uid \in LiveIds(Game) :
       /\ returnedFor(UnitActions, <<"unit", uid, 0>>) <= 1
       /\ returnedFor(UnitActions, <<"unit", uid, 0>>) = 1 =>
            \A team \in Teams, command \in unitCommands(uid) : rejects(team, command)
  /\ \A pos \in DOMAIN citytile :
       /\ returnedFor(TileActions, <<"tile", pos[1], pos[2]>>) <= 1
       /\ returnedFor(TileActions, <<"tile", pos[1], pos[2]>>) = 1 =>
            \A team \in Teams, command \in tileCommands(pos) : rejects(team, command)

\* both units and a tile have acted, and without the action each of their
\* commands would have been accepted
C10_Witness ==
  /\ last.op = "validateCommand"
  /\ \A uid \in 1..2 : returnedFor(UnitActions, <<"unit", uid, 0>>) = 1
  /\ returnedFor(TileActions, <<"tile", 0, 0>>) = 1
  /\ validateCommand(Game, _genInitialAccumulatedActionStats,
                     [agentID |-> "A", command |-> <<"p", 1>>]).kind = "Action"
  /\ validateCommand(Game, _genInitialAccumulatedActionStats,
                     [agentID |-> "A", command |-> <<"r", "0", "0">>]).kind = "Action"
  /\ rejects("A", <<"p", 1>>)
  /\ rejects("A", <<"r", "0", "0">>)

\* the city tiles of a team on the map
ownedTiles(team) == {pos \in DOMAIN citytile : citytile[pos].team = team}

buildCommands ==
  {<<action, x, y>> : action \in {"bw", "bc"}, x \in XTokens, y \in YTokens}

\* C13: a team with at least as many units as city tiles gets every bw and bc
\* command rejected, for every tile named and every accumulator of the turn
C13_BuildsRejectedAtCap ==
  \A team \in Teams :
    teamUnitsSize(Game, team) >= Cardinality(ownedTiles(team)) =>
      \A command \in buildCommands : rejects(team, command)

\* two tiles and two units; the tile at (0,0) is ready and has not acted, the
\* accumulator holds an action, and bw and bc there are rejected
C13_Witness ==
  /\ last.op = "validateCommand"
  /\ Cardinality(ownedTiles("A")) = 2
  /\ teamUnitsSize(Game, "A") = 2
  /\ acc["A"].actionsPlaced # {}
  /\ ~rejects("A", <<"r", "0", "0">>)
  /\ rejects("A", <<"bw", "0", "0">>)
  /\ rejects("A", <<"bc", "0", "0">>)

\* ---- commands of both teams in one turn: team A has two city tiles, team B
\* ---- one, each team a worker that carries the wood of a city tile

OrderTiles ==
  spawnCityTile(
    spawnCityTile(spawnCityTile(ValidateBase, "A", <<0, 0>>, 0).game,
                  "A", <<0, 1>>, 0).game,
    "B", <<2, 0>>, 0).game

OrderGames ==
  LET withA == {unitAdded(OrderTiles, WORKER, "A", pos, CITY_WOOD_COST) :
                  pos \in {<<0, 0>>, <<1, 0>>}}
  IN withA \cup
     {unitAdded(g, WORKER, "B", pos, CITY_WOOD_COST) :
        g \in withA, pos \in {<<2, 0>>, <<1, 0>>}}

InitOrder ==
  /\ \E g \in OrderGames : IsGame(g)
  /\ TurnStart
  /\ last = NoCall

SpecOrder == InitOrder /\ [][NextValidate]_vars

\* the commands of a team for the units and the city tiles there are
commandsOf(team) ==
  {[agentID |-> team, command |-> c] :
     c \in UNION {unitCommands(uid) : uid \in LiveIds(Game)}
             \cup UNION {tileCommands(pos) : pos \in DOMAIN citytile}}

answer(call) == <<call.kind, call.action, call.actor>>

\* C14: a command of team A and a command of team B get the same answers and
\* leave the same accumulator in either order, so every interleaving of the two
\* teams' commands that keeps each team's order does
C14_TeamsCommute ==
  \A a \in commandsOf("A") :
    LET aFirst == validateCommand(Game, acc, a)
    IN \A b \in commandsOf("B") :
         LET bFirst == validateCommand(Game, acc, b)
             bSecond == validateCommand(Game, aFirst.acc, b)
             aSecond == validateCommand(Game, bFirst.acc, a)
         IN /\ answer(aFirst) = answer(aSecond)
            /\ answer(bFirst) = answer(bSecond)
            /\ bSecond.acc = aSecond.acc

\* both teams have had a command accepted this turn, and each still has a
\* command that is accepted
C14_Witness ==
  /\ last.op = "validateCommand"
  /\ acc["A"].actionsPlaced # {}
  /\ acc["B"].actionsPlaced # {}
  /\ \E a \in commandsOf("A") : validateCommand(Game, acc, a).kind = "Action"
  /\ \E b \in commandsOf("B") : validateCommand(Game, acc, b).kind = "Action"

\* C15: a call of validateCommand leaves the map, the units, the cities, the
\* research state, the statistics and the id counters as they were; of the
\* accumulator it changes at most the entry of the team that sent the command,
\* and nothing when it returns no action
C15_ValidateFrame ==
  [][last'.op = "validateCommand" =>
       /\ UNCHANGED gameVars
       /\ turnActions' = turnActions => acc' = acc
       /\ \A team \in Teams : \A cmd \in commandsOf(team) :
            LET call == validateCommand(Game, acc, cmd)
            IN /\ \A other \in Teams \ {team} : call.acc[other] = acc[other]
               /\ call.kind # "Action" => call.acc = acc]_vars

\* a command of team A has been answered with an action while team B's entry
\* held actions, and a command that is rejected is at hand
C15_Witness ==
  /\ last.op = "validateCommand"
  /\ acc["A"].actionsPlaced # {}
  /\ acc["B"].actionsPlaced # {}
  /\ acc["B"].workersBuilt = 1
  /\ citytile # EmptyMap /\ teamUnits["A"] # EmptyMap
  /\ \E a \in commandsOf("A") : validateCommand(Game, acc, a).kind = "MatchWarn"

\* C16: a bcity command is answered with an action only when the unit it names
\* is a worker of the team that sent it; a bcity command that names a cart is
\* rejected
C16_BuildCityOnlyByWorker ==
  \A team \in Teams, uid \in UnitIdTokens :
    ~rejects(team, <<"bcity", uid>>) =>
      /\ hasUnit(Game, team, uid)
      /\ getUnit(Game, team, uid).type = WORKER

\* ---- transferResources

TransferMaxUnits == 2
TransferMaxAmount == 3

\* Math.min of three numbers
mathMin(a, b, c) ==
  LET ab == IF a < b THEN a ELSE b
  IN IF ab < c THEN ab ELSE c

\* variant: the destination's cargo space is not looked at
transferResourcesSpaceIgnored(g, team, srcID, destID, resourceType, amount) ==
  LET srcunit == getUnit(g, team, srcID)
      transferAmount == IF amount < srcunit.cargo[resourceType] THEN amount
                        ELSE srcunit.cargo[resourceType]
      taken == [g EXCEPT !.teamUnits[team][srcID].cargo[resourceType] =
                           @ - transferAmount]
  IN [taken EXCEPT !.teamUnits[team][destID].cargo[resourceType] =
                     @ + transferAmount]

transferResources(g, team, srcID, destID, resourceType, amount) ==
  LET srcunit == getUnit(g, team, srcID)
      destunit == getUnit(g, team, destID)
      transferAmount == mathMin(amount, srcunit.cargo[resourceType],
                                getCargoSpaceLeft(destunit))
      taken == [g EXCEPT !.teamUnits[team][srcID].cargo[resourceType] =
                           @ - transferAmount]
  IN [taken EXCEPT !.teamUnits[team][destID].cargo[resourceType] =
                     @ + transferAmount]

\* called with what a TransferAction holds: two units of the team and an amount
\* that is not negative
TransferResources(team, srcID, destID, resourceType, amount) ==
  /\ hasUnit(Game, team, srcID)
  /\ hasUnit(Game, team, destID)
  /\ SetGame(transferResources(Game, team, srcID, destID, resourceType, amount))
  /\ NewAccumulator
  /\ last' = [op |-> "transferResources"]

\* what a unit carries after harvesting: wood and coal within its capacity
TransferCargos(type) ==
  {cargo \in [wood : {0, 1, 3}, coal : {0, 1}, uranium : {0}] :
     cargoTotal(cargo) <= capacityOf(type)}

transferUnitsAdded(g) ==
  UNION {{withCargo(spawnUnit(g, type, "A", <<0, 0>>, 0), "A",
                    g.globalUnitIDCount + 1, cargo) : cargo \in TransferCargos(type)} :
           type \in {WORKER, CART}}

RECURSIVE transferGames(_)
transferGames(n) ==
  IF n = 0
  THEN {withCargo(spawnWorker(NewGame, "B", <<1, 0>>, 0), "B", 1,
                  [wood |-> 1, coal |-> 1, uranium |-> 0])}
  ELSE UNION {transferUnitsAdded(g) : g \in transferGames(n - 1)}

InitTransfer ==
  /\ \E g \in transferGames(TransferMaxUnits) : IsGame(g)
  /\ TurnStart
  /\ last = NoCall

NextTransfer ==
  \E team \in Teams, srcID, destID \in 1..(TransferMaxUnits + 1),
     resourceType \in ResourceTypes, amount \in 0..TransferMaxAmount :
    TransferResources(team, srcID, destID, resourceType, amount)

SpecTransfer == InitTransfer /\ [][NextTransfer]_vars

\* C17: a transfer between two units of a team moves min(amount, what the
\* source holds of the type, the destination's cargo space left): the source
\* loses it and the destination gains it, the source holds no negative amount,
\* the destination stays within its capacity, and the other types and all other
\* units are as before
C17_TransferMovesMinimum ==
  \A team \in Teams :
    \A srcID \in DOMAIN teamUnits[team] : \A destID \in DOMAIN teamUnits[team] \ {srcID} :
      \A resourceType \in ResourceTypes, amount \in 0..TransferMaxAmount :
        LET after == transferResources(Game, team, srcID, destID, resourceType, amount)
            src == teamUnits[team][srcID]
            dest == teamUnits[team][destID]
            moved == mathMin(amount, src.cargo[resourceType], getCargoSpaceLeft(dest))
            srcAfter == after.teamUnits[team][srcID]
            destAfter == after.teamUnits[team][destID]
        IN /\ srcAfter.cargo[resourceType] = src.cargo[resourceType] - moved
           /\ destAfter.cargo[resourceType] = dest.cargo[resourceType] + moved
           /\ srcAfter.cargo[resourceType] + destAfter.cargo[resourceType]
                = src.cargo[resourceType] + dest.cargo[resourceType]
           /\ srcAfter.cargo[resourceType] >= 0
           /\ cargoTotal(destAfter.cargo) <= capacityOf(dest.type)
           /\ \A other \in ResourceTypes \ {resourceType} :
                /\ srcAfter.cargo[other] = src.cargo[other]
                /\ destAfter.cargo[other] = dest.cargo[other]
           /\ after = [Game EXCEPT
                         !.teamUnits[team][srcID].cargo[resourceType] =
                            srcAfter.cargo[resourceType],
                         !.teamUnits[team][destID].cargo[resourceType] =
                            destAfter.cargo[resourceType]]

\* after a transfer a unit is full and another unit of its team still holds a
\* resource: the next transfer to the full unit moves nothing
C17_Witness ==
  /\ last.op = "transferResources"
  /\ \E srcID, destID \in DOMAIN teamUnits["A"] :
       /\ srcID # destID
       /\ getCargoSpaceLeft(teamUnits["A"][destID]) = 0
       /\ teamUnits["A"][destID].cargo.wood > 0
       /\ teamUnits["A"][destID].cargo.coal > 0
       /\ teamUnits["A"][srcID].cargo.wood > 0

\* C18: handleMovementActions returns every move of the batch that ends on a
\* city tile, however many moves end there, whatever units are on the tile and
\* whichever other moves it rejects
C18_CityTileMoveKept ==
  resolved =>
    \A action \in asSet(last.actions) :
      isCityTile(Game, action.newcell) => accepted(action)

\* a move onto a city tile is returned while the two moves into the cell its
\* unit leaves are rejected
C18_Witness ==
  /\ resolved
  /\ \E a, b, c \in asSet(last.actions) :
       /\ isCityTile(Game, a.newcell) /\ accepted(a)
       /\ b # c
       /\ b.newcell = originOf(a) /\ c.newcell = originOf(a)
       /\ rejected(b) /\ rejected(c)

\* ---- the fuel of the cities

\* the step is a deposit of a unit on a tile of its team that names city id
depositedInto(id) ==
  \E team \in Teams : \E unitid \in DOMAIN teamUnits[team] :
    LET unit == teamUnits[team][unitid]
    IN /\ onOwnCityTile(Game, unit)
       /\ citytile[unit.pos].cityid = id
       /\ cities'[id].fuel = cities[id].fuel + fuelOf(unit.cargo)
       /\ teamUnits'[team][unitid].cargo = [wood |-> 0, coal |-> 0, uranium |-> 0]

\* the step is a merge in which city id takes the fuel of the cities that go
absorbedInto(id) ==
  LET gone == DOMAIN cities \ DOMAIN cities'
  IN /\ gone # {}
     /\ cities'[id].fuel = cities[id].fuel + fuelSum(cities, gone)

\* C19: the fuel of a city that stays in the registry never decreases; it
\* changes only by the deposit of a unit on a tile of its team that belongs to
\* the city, by the fuel value of the unit's cargo, which is zero afterwards, or
\* by taking the fuel of the cities it absorbs; a deposit for a unit that is not
\* on a city tile of its team changes nothing
C19_FuelOnlyGrows ==
  [][/\ \A id \in DOMAIN cities \cap DOMAIN cities' :
          /\ cities'[id].fuel >= cities[id].fuel
          /\ cities'[id].fuel # cities[id].fuel =>
               depositedInto(id) \/ absorbedInto(id)
     /\ \A team \in Teams : \A unitid \in DOMAIN teamUnits[team] :
          ~onOwnCityTile(Game, teamUnits[team][unitid]) =>
            handleResourceDeposit(Game, team, unitid) = Game]_vars

\* ---- the moves validateCommand accepts

moveAccepted(team, uid, direction) ==
  validateCommand(Game, acc, [agentID |-> team, command |-> <<"m", uid, direction>>]).kind
    = "Action"

\* C20: a move that validateCommand accepts is for a unit of the team that sent
\* it for which no action has been accepted this turn, and it ends on a cell of
\* the map that is no city tile of the other team; a move in direction c ends
\* on the unit's own cell and is accepted whatever that cell is
C20_AcceptedMove ==
  \A team \in Teams, uid \in UnitIdTokens :
    /\ \A direction \in DirectionTokens :
         moveAccepted(team, uid, direction) =>
           /\ hasUnit(Game, team, uid)
           /\ returnedFor(UnitActions, <<"unit", uid, 0>>) = 0
           /\ LET newcell == MoveAction(Game, team, uid, direction).newcell
              IN /\ inMap(newcell)
                 /\ ~(isCityTile(Game, newcell) /\ citytile[newcell].team # team)
                 /\ direction = "c" => newcell = getUnit(Game, team, uid).pos
    /\ (hasUnit(Game, team, uid)
          /\ canMove(getUnit(Game, team, uid))
          /\ returnedFor(UnitActions, <<"unit", uid, 0>>) = 0)
         => moveAccepted(team, uid, "c")

\* ---- destroyCity

\* C21: destroyCity for a registered city removes that id and no other from the
\* registry, makes every cell the city lists a cell that is no city tile with
\* road MIN_ROAD, and leaves the other cities with their tiles and fuel, the
\* other cells, every unit (also those on the destroyed tiles) and both id
\* counters as they were
C21_DestroyCityFrame ==
  \A cityID \in DOMAIN cities :
    LET after == destroyCity(Game, cityID)
        tiles == Range(cities[cityID].citycells)
    IN /\ DOMAIN after.cities = (DOMAIN cities) \ {cityID}
       /\ \A id \in DOMAIN after.cities : after.cities[id] = cities[id]
       /\ \A p \in tiles : ~isCityTile(after, p) /\ after.road[p] = MIN_ROAD
       /\ \A p \in Positions \ tiles :
            /\ isCityTile(after, p) = isCityTile(Game, p)
            /\ isCityTile(Game, p) => after.citytile[p] = citytile[p]
            /\ after.road[p] = road[p]
       /\ \A id \in DOMAIN after.cities : \A p \in Range(cities[id].citycells) :
            isCityTile(Game, p) =>
              isCityTile(after, p) /\ after.citytile[p] = citytile[p]
       /\ after.teamUnits = teamUnits
       /\ after.cellUnits = cellUnits
       /\ after.globalCityIDCount = globalCityIDCount
       /\ after.globalUnitIDCount = globalUnitIDCount
       /\ after.resource = resource
       /\ after.stats = stats
       /\ after.researched = researched

\* a city was destroyed under worker 1: its cell had a road and a city tile
\* and now has neither, the worker is still on it, and another city remains
C21_Witness ==
  /\ ~isCityTile(Game, <<0, 0>>)
  /\ road[<<0, 0>>] = MIN_ROAD
  /\ hasUnit(Game, "A", 1)
  /\ teamUnits["A"][1].pos = <<0, 0>>
  /\ \E u \in cellUnits[<<0, 0>>] : u.id = 1
  /\ cities # EmptyMap
  /\ globalCityIDCount = CityMaxID

\* ---- handleResourceRelease: the full share, the split, the receivers

\* the units of a team among those alive
unitsOf(team) == {u \in liveUnits : u.team = team}

\* C22: when the cell holds at least the rate for each of its n eligible workers
\* and each of them has cargo space for the rate, a call credits each of them
\* the rate and takes rate x n from the cell; in every call resourcesCollected
\* of a team rises by what the team's workers are credited
C22_FullShare ==
  [][released =>
       LET pos == last'.pos
           type == resource[pos].type
           rate == WORKER_COLLECTION_RATE(type)
           workers == eligible(pos, type)
           n == Cardinality(workers)
       IN /\ (/\ fracLeq(Whole(rate * n), resource[pos].amount)
              /\ \A u \in workers :
                   getCargoSpaceLeft(teamUnits[u.team][u.id]) >= rate)
               => /\ \A u \in workers : credited(u, type) = rate
                  /\ resource'[pos].amount
                       = fracSub(resource[pos].amount, Whole(rate * n))
          /\ \A team \in Teams :
               stats'[team].resourcesCollected[type]
                 = stats[team].resourcesCollected[type]
                     + creditedSum(unitsOf(team), type)]_vars

\* two workers, one of each team, took two wood each of the five there were
C22_Witness ==
  /\ last.op = "handleResourceRelease"
  /\ last.pos = WoodCell
  /\ last.amount = Whole(5)
  /\ resource[WoodCell].amount = Whole(1)
  /\ stats["A"].resourcesCollected.wood = CollectionRateWood
  /\ stats["B"].resourcesCollected.wood = CollectionRateWood

\* the eligible workers in the orders that have ascending cargo space
ascending(workers) ==
  {order \in [1..Cardinality(workers) -> workers] :
     /\ \A i, j \in DOMAIN order : i < j =>
          /\ order[i] # order[j]
          /\ getCargoSpaceLeft(teamUnits[order[i].team][order[i].id])
               <= getCargoSpaceLeft(teamUnits[order[j].team][order[j].id])}

\* the entitlements of the workers of an order: the least of the worker's space,
\* the rate, and the pool split among the workers not yet served
RECURSIVE entitlements(_, _, _)
entitlements(order, rate, pool) ==
  IF order = <<>> THEN <<>>
  ELSE LET u == Head(order)
           share == fracMin(fracMin(Whole(getCargoSpaceLeft(teamUnits[u.team][u.id])),
                                    Whole(rate)),
                            fracDiv(pool, Len(order)))
       IN <<share>> \o entitlements(Tail(order), rate, fracSub(pool, share))

RECURSIVE fracSum(_)
fracSum(shares) ==
  IF shares = <<>> THEN Whole(0)
  ELSE fracAdd(Head(shares), fracSum(Tail(shares)))

\* C23: the workers are served in ascending order of cargo space; each is
\* credited the floor of its entitlement and the cell loses the entitlements
\* themselves, so the cell loses at least what is credited, by less than the
\* number of eligible workers more, and gets nothing back
C23_FlooredShares ==
  [][released =>
       LET pos == last'.pos
           type == resource[pos].type
           rate == WORKER_COLLECTION_RATE(type)
           workers == eligible(pos, type)
           n == Cardinality(workers)
           pool == fracMin(Whole(rate * n), resource[pos].amount)
           decrease == fracSub(resource[pos].amount, resource'[pos].amount)
           sum == creditedSum(liveUnits, type)
       IN /\ \E order \in ascending(workers) :
               LET shares == entitlements([i \in 1..n |-> order[i]], rate, pool)
               IN /\ \A i \in 1..n : credited(order[i], type) = floor(shares[i])
                  /\ decrease = fracSum(shares)
          /\ fracLeq(Whole(sum), decrease)
          /\ n > 0 => fracLess(decrease, Whole(sum + n))
          /\ n = 0 => decrease = Whole(0)]_vars

\* a cell that held one wood is empty after a call with two eligible workers,
\* and nobody has collected any wood
C23_Witness ==
  /\ last.op = "handleResourceRelease"
  /\ last.pos = WoodCell
  /\ last.amount = Whole(1)
  /\ resource[WoodCell].amount = Whole(0)
  /\ Cardinality({u \in liveUnits :
                    /\ teamUnits[u.team][u.id].type = WORKER
                    /\ teamUnits[u.team][u.id].cargo.wood = 0
                    /\ (teamUnits[u.team][u.id].pos = WoodCell
                          \/ isAdjacent(teamUnits[u.team][u.id].pos, WoodCell))}) = 2
  /\ stats["A"].resourcesCollected.wood = 0
  /\ stats["B"].resourcesCollected.wood = 0

\* the game without the given units
without(g, units) ==
  [g EXCEPT
     !.cellUnits = [p \in DOMAIN @ |-> {x \in @[p] : x \notin units}],
     !.teamUnits = [t \in DOMAIN @ |->
                      [id \in {i \in DOMAIN @[t] : [team |-> t, id |-> i] \notin units}
                         |-> @[t][id]]]]

\* C24: a call changes the cargo of eligible workers only: carts, workers of a
\* team that has not researched the type and units that are neither on the cell
\* nor next to it are as before, and the eligible workers and the cell end as
\* they would if those units were not there; a call on a cell that has no
\* resource changes nothing
C24_OnlyEligibleReceive ==
  [][last'.op = "handleResourceRelease" =>
       /\ released =>
            LET pos == last'.pos
                workers == eligible(pos, resource[pos].type)
                others == liveUnits \ workers
                alone == handleResourceRelease(without(Game, others), pos)
            IN /\ \A u \in others : teamUnits'[u.team][u.id] = teamUnits[u.team][u.id]
               /\ \A u \in workers :
                    teamUnits'[u.team][u.id] = alone.teamUnits[u.team][u.id]
               /\ resource' = alone.resource
       /\ ~hasResource(Game, last'.pos) => UNCHANGED gameVars
       /\ \A pos \in Positions :
            ~hasResource(Game, pos) => handleResourceRelease(Game, pos) = Game]_vars

\* of a worker of team B, a cart and a worker of team A on the cell next to the
\* uranium, the worker of team A took one uranium of the two, the others none
C24_Witness ==
  /\ last.op = "handleResourceRelease"
  /\ last.pos = UraniumCell
  /\ last.amount = Whole(2)
  /\ resource[UraniumCell].amount = Whole(1)
  /\ stats["A"].resourcesCollected.uranium = 1
  /\ \E a, c \in DOMAIN teamUnits["A"] : \E b \in DOMAIN teamUnits["B"] :
       /\ teamUnits["A"][a].type = WORKER /\ teamUnits["A"][a].pos = <<0, 0>>
       /\ teamUnits["A"][a].cargo.uranium = 1
       /\ teamUnits["A"][c].type = CART /\ teamUnits["A"][c].pos = <<0, 0>>
       /\ teamUnits["A"][c].cargo.uranium = 0
       /\ teamUnits["B"][b].type = WORKER /\ teamUnits["B"][b].pos = <<0, 0>>
       /\ teamUnits["B"][b].cargo.uranium = 0

\* ---- the adjacency counters of the city tiles

\* the city tiles of the team next to pos
sameTeamNeighbours(tiles, pos, team) ==
  {q \in DOMAIN tiles : isAdjacent(pos, q) /\ tiles[q].team = team}

\* C25: the adjacentCityTiles counter of every city tile is the number of city
\* tiles of its team next to it, two city tiles of a team that are next to each
\* other name the same city, and a spawnCityTile step gives the new tile the
\* number of its same-team neighbours and each of them one more
C25_AdjacencyCounters ==
  /\ \A p \in DOMAIN citytile :
       /\ citytile[p].adjacentCityTiles
            = Cardinality(sameTeamNeighbours(citytile, p, citytile[p].team))
       /\ \A q \in sameTeamNeighbours(citytile, p, citytile[p].team) :
            citytile[q].cityid = citytile[p].cityid
  /\ \A team \in Teams, pos \in Positions \ DOMAIN citytile :
       LET after == spawnCityTile(Game, team, pos, 0)
           adj == sameTeamNeighbours(citytile, pos, team)
       IN ~after.threw =>
            /\ after.game.citytile[pos].adjacentCityTiles = Cardinality(adj)
            /\ \A q \in adj :
                 after.game.citytile[q].adjacentCityTiles
                   = citytile[q].adjacentCityTiles + 1

\* ---- the reversion steps of handleMovementActions

CoreMaxLive == 2
CoreMaxSpawns == 3
CoreMaxTiles == 2
CoreMaxCityID == 2

CoreSpawnCells == {<<1, 1>>}

CoreCityCells == {<<0, 1>>, <<1, 1>>}

InitCore ==
  /\ IsGame(withResource(NewGame, <<2, 1>>, "wood", 1))
  /\ TurnStart
  /\ last = NoCall

CanSpawnCore ==
  /\ Cardinality(LiveIds(Game)) < CoreMaxLive
  /\ SpawnsSoFar(Game) < CoreMaxSpawns

NextCore ==
  \/ \E team \in Teams, pos \in CoreSpawnCells, unitid \in {0} \cup SuppliableUnitIds(Game) :
        CanSpawnCore /\ SpawnWorker(team, pos, unitid)
  \/ \E pos \in CoreSpawnCells, unitid \in {0} \cup SuppliableUnitIds(Game) :
        CanSpawnCore /\ SpawnCart("A", pos, unitid)
  \/ \E team \in Teams, unitid \in LiveIds(Game) :
        MoveUnit(team, unitid, "w")
  \/ \E team \in Teams, unitid \in LiveIds(Game) :
        DestroyUnit(team, unitid)
  \/ \E pos \in CoreCityCells, cityid \in {0} \cup SuppliableCityIds(Game, "A") :
        /\ Cardinality(DOMAIN citytile) < CoreMaxTiles
        /\ (cityid = 0 /\ adjSameTeamCityTiles(Game, "A", pos) = <<>>)
              => globalCityIDCount < CoreMaxCityID
        /\ SpawnCityTile("A", pos, cityid)
  \/ \E cityID \in DOMAIN cities : DestroyCity(cityID)
  \/ \E team \in Teams, unitid \in LiveIds(Game) : HandleResourceDeposit(team, unitid)
  \/ \E pos \in DOMAIN resource : HandleResourceRelease(pos)
  \/ \E team \in Teams, srcID, destID \in LiveIds(Game) :
        srcID # destID /\ TransferResources(team, srcID, destID, "wood", 1)
  \/ ValidateCommand([agentID |-> "A", command |-> <<"bw", "1", "1">>])
  \/ \E team \in Teams, unitid \in LiveIds(Game) :
        /\ hasUnit(Game, team, unitid)
        /\ validMove(Game, team, unitid, "w")
        /\ HandleMovementActions(<<MoveAction(Game, team, unitid, "w")>>)

SpecCore == InitCore /\ [][NextCore]_vars

\* ---- the id counters

justSpawned == LiveIds(Game') \ LiveIds(Game)

justFounded == (DOMAIN cities') \ (DOMAIN cities)

\* C27: the id counters never decrease. A step raises globalUnitIDCount only by
\* one, in a spawnWorker or spawnCart call whose unit gets the new value for
\* its id, and globalCityIDCount only by one, when a city is founded under the
\* new value; spawnWorker and spawnCart without an id raise the unit counter
\* and with an id leave it; spawnCityTile without an id raises the city counter
\* when the tile has no same-team neighbour and leaves it when it has one or an
\* id is supplied; the ids in use are at most the counters, so a new counter
\* value is the id of no other unit or city
C27_CountersOnlyGrow ==
  /\ [][/\ globalUnitIDCount' \in {globalUnitIDCount, globalUnitIDCount + 1}
        /\ globalUnitIDCount' # globalUnitIDCount =>
             /\ last'.op \in {"spawnWorker", "spawnCart"}
             /\ justSpawned = {globalUnitIDCount'}
        /\ globalCityIDCount' \in {globalCityIDCount, globalCityIDCount + 1}
        /\ globalCityIDCount' # globalCityIDCount =>
             /\ justFounded = {globalCityIDCount'}
             /\ \E pos \in (DOMAIN citytile') \ (DOMAIN citytile) :
                  citytile'[pos].cityid = globalCityIDCount']_vars
  /\ [](/\ \A team \in Teams, pos \in Positions :
             /\ \A type \in {WORKER, CART} :
                  /\ spawnUnit(Game, type, team, pos, 0).globalUnitIDCount
                       = globalUnitIDCount + 1
                  /\ hasUnit(spawnUnit(Game, type, team, pos, 0), team,
                             globalUnitIDCount + 1)
                  /\ \A unitid \in SuppliableUnitIds(Game) :
                       spawnUnit(Game, type, team, pos, unitid).globalUnitIDCount
                         = globalUnitIDCount
             /\ ~isCityTile(Game, pos) =>
                  /\ LET spawned == spawnCityTile(Game, team, pos, 0)
                     IN ~spawned.threw =>
                          spawned.game.globalCityIDCount
                            = IF adjSameTeamCityTiles(Game, team, pos) = <<>>
                              THEN globalCityIDCount + 1 ELSE globalCityIDCount
                  /\ \A cityid \in SuppliableCityIds(Game, team) :
                       LET spawned == spawnCityTile(Game, team, pos, cityid)
                       IN ~spawned.threw =>
                            spawned.game.globalCityIDCount = globalCityIDCount
        /\ LiveIds(Game) \subseteq 1..globalUnitIDCount
        /\ DOMAIN cities \subseteq 1..globalCityIDCount)

\* a destroyed unit's id was supplied to a third spawn, and a second tile has
\* joined the city of the first: both counters are below the number of spawns
C27_Witness ==
  /\ last.op \in {"spawnWorker", "spawnCart"}
  /\ SpawnsSoFar(Game) = 3
  /\ globalUnitIDCount = 2
  /\ globalCityIDCount = 1
  /\ Cardinality(DOMAIN citytile) = 2
  /\ Cardinality(DOMAIN cities) = 1

====
